---- MODULE Spec2Model ----
(***************************************************************************)
(* flawdcode: the stream-json event decoder and the transcript assembler   *)
(* of the chat tab (ChatModel), together with the batch extractor          *)
(* ClaudeResponse.ExtractBlocks.                                           *)
(*                                                                         *)
(* Go strings that the program concatenates or scans (texts, tool inputs,  *)
(* tool outputs) are sequences of tokens; "" is <<>>.  Names, ids and      *)
(* discriminators, which the program only compares, are TLA+ strings.      *)
(* Go slice indices are 0-based with -1 for "not found"; here they are     *)
(* 1-based with 0 for "not found".                                         *)
(***************************************************************************)
EXTENDS Integers, Sequences, FiniteSets, Bags, TLC

VARIABLES
  entries,   \* ChatModel.entries
  streamCh,  \* ChatModel.streamCh: "nil" or "ch"
  cmd,       \* the tea.Cmd in flight: "none", "StreamClaude" or "waitForStreamMsg"
  events,    \* the events slice of the StreamClaude goroutine (Response.Events)
  nInputs,   \* inputs taken so far: Enter key presses and stdout lines read
  starting,  \* StreamClaude commands that Update returned and that have not run yet
  procs,     \* the StreamClaude goroutines with their channels, in order of creation
  msgs,      \* the tea.Msgs that commands have produced and Update has not handled
  dec,       \* the line decoder run on its own: the lines given to it, the
             \* accumulators of its caller and what it returned for the last line
  banner,    \* ChatModel's startup banner and rate limit fields
  stats,     \* ChatModel's sessionID and cumulative session statistics
  isess,     \* an InteractiveSession: its lock, the SendPrompt calls and the PTY
  imode,     \* ChatModel's interactive, iSession (0 for nil, else the number
             \* of the session) and iStreamCh
  ipend,     \* interactive mode run concurrently: the commands Update returned
             \* that have not finished, the messages not handled yet, the
             \* sessions started, the prompts sent and the chunk channels
  kbd,       \* ChatModel's scrollMode, its textarea (focus and value), the keys
             \* its viewport was given and the keys pressed so far
  perm,      \* the permission modes a ChatModel went through
  wrap       \* a call of wrapText: its arguments, locals and position

\* the state of the turn-level specification Spec
turnVars == <<cmd, events>>
\* the state of the channel-level specification SpecCh
chVars == <<starting, procs, msgs>>
\* the state of the decoder-level specification SpecDec
decVars == <<dec>>
\* the state of the session-level specification SpecPty and of the
\* interactive mode of ChatModel
ptyVars == <<isess, imode, ipend, kbd>>
\* the state of the specifications of single functions
fnVars == <<perm, wrap>>

vars == <<entries, streamCh, cmd, events, nInputs, starting, procs, msgs, dec,
          banner, stats, isess, imode, ipend, kbd, perm, wrap>>

(***************************************************************************)
(* Bounds of the model.                                                    *)
(***************************************************************************)
\* inputs of a run: Enter key presses plus stdout lines of the subprocesses
MaxInputs == 4
\* channel level, inputs of a run: Enter key presses, runs of StreamClaude and
\* stdout lines of the subprocesses
MaxChInputs == 5
\* decoder level: lines given to the decoder
MaxDecLines == 3

(***************************************************************************)
(* JSON text as token sequences.  A string literal is one token, written   *)
(* with its quotes; punctuation and white space are one token each.        *)
(***************************************************************************)
StringLiterals ==
  {"\"description\"", "\"subagent_type\"", "\"prompt\"", "\"command\"",
   "\"find\"", "\"ls\"",
   "\"type\"", "\"subtype\"", "\"parent_tool_use_id\"", "\"event\"", "\"delta\"",
   "\"text\"", "\"usage\"", "\"stream_event\"", "\"content_block_delta\"",
   "\"text_delta\"", "\"result\"", "\"bad\"", "\"Hel\"", "\"lo\"",
   "\"message\"", "\"model\"", "\"stop_reason\"", "\"assistant\"", "\"m1\"",
   "\"m2\"", "\"end_turn\"", "\"tool_use\"", "\"thinking\"", "\"partial_json\"",
   "\"thinking_delta\"", "\"input_json_delta\"", "\"signature_delta\"", "\"content_block_start\"", "\"hm\"",
   "\"\"", "\"{\\\"command\\\":\""}

isLiteral(c) == c \in StringLiterals

\* the Go string a literal token decodes to
literalValue(c) ==
  CASE c = "\"description\"" -> "description"
    [] c = "\"subagent_type\"" -> "subagent_type"
    [] c = "\"prompt\"" -> "prompt"
    [] c = "\"command\"" -> "command"
    [] c = "\"find\"" -> "find"
    [] c = "\"ls\"" -> "ls"
    [] c = "\"type\"" -> "type"
    [] c = "\"subtype\"" -> "subtype"
    [] c = "\"parent_tool_use_id\"" -> "parent_tool_use_id"
    [] c = "\"event\"" -> "event"
    [] c = "\"delta\"" -> "delta"
    [] c = "\"text\"" -> "text"
    [] c = "\"usage\"" -> "usage"
    [] c = "\"stream_event\"" -> "stream_event"
    [] c = "\"content_block_delta\"" -> "content_block_delta"
    [] c = "\"text_delta\"" -> "text_delta"
    [] c = "\"result\"" -> "result"
    [] c = "\"bad\"" -> "bad"
    [] c = "\"Hel\"" -> "Hel"
    [] c = "\"lo\"" -> "lo"
    [] c = "\"message\"" -> "message"
    [] c = "\"model\"" -> "model"
    [] c = "\"stop_reason\"" -> "stop_reason"
    [] c = "\"assistant\"" -> "assistant"
    [] c = "\"m1\"" -> "m1"
    [] c = "\"m2\"" -> "m2"
    [] c = "\"end_turn\"" -> "end_turn"
    [] c = "\"tool_use\"" -> "tool_use"
    [] c = "\"thinking\"" -> "thinking"
    [] c = "\"partial_json\"" -> "partial_json"
    [] c = "\"thinking_delta\"" -> "thinking_delta"
    [] c = "\"input_json_delta\"" -> "input_json_delta"
    [] c = "\"signature_delta\"" -> "signature_delta"
    [] c = "\"content_block_start\"" -> "content_block_start"
    [] c = "\"hm\"" -> "hm"
    [] c = "\"{\\\"command\\\":\"" -> "{\"command\":"
    [] OTHER -> ""

\* encoding/json scanner: isSpace
isSpace(c) == c \in {" ", "\n"}

(***************************************************************************)
(* encoding/json scanner, restricted to objects, string literals and white *)
(* space.  A scanner state is [step, parseState, endTop, err]; a step      *)
(* returns the new state and the scan code in field v.                     *)
(***************************************************************************)
newScanner == [step |-> "BeginValue", parseState |-> <<>>, endTop |-> FALSE,
               err |-> FALSE, v |-> "begin"]

scanError(s) == [s EXCEPT !.step = "Error", !.err = TRUE, !.v = "scanError"]

stateEndTop(s, c) ==
  IF ~isSpace(c) THEN scanError(s) ELSE [s EXCEPT !.v = "scanEnd"]

popParseState(s) ==
  LET n == Len(s.parseState) - 1
      ps == SubSeq(s.parseState, 1, n)
  IN IF n = 0
       THEN [s EXCEPT !.parseState = ps, !.step = "EndTop", !.endTop = TRUE]
       ELSE [s EXCEPT !.parseState = ps, !.step = "EndValue"]

stateEndValue(s, c) ==
  LET n == Len(s.parseState) IN
  IF n = 0
    THEN stateEndTop([s EXCEPT !.step = "EndTop", !.endTop = TRUE], c)
  ELSE IF isSpace(c)
    THEN [s EXCEPT !.step = "EndValue", !.v = "scanSkipSpace"]
  ELSE IF s.parseState[n] = "parseObjectKey"
    THEN IF c = ":"
           THEN [s EXCEPT !.parseState[n] = "parseObjectValue",
                          !.step = "BeginValue", !.v = "scanObjectKey"]
           ELSE scanError(s)
  ELSE IF c = ","
    THEN [s EXCEPT !.parseState[n] = "parseObjectKey",
                   !.step = "BeginString", !.v = "scanObjectValue"]
  ELSE IF c = "}"
    THEN [popParseState(s) EXCEPT !.v = "scanEndObject"]
  ELSE scanError(s)

stateBeginString(s, c) ==
  IF isSpace(c) THEN [s EXCEPT !.v = "scanSkipSpace"]
  ELSE IF isLiteral(c) THEN [s EXCEPT !.step = "EndValue", !.v = "scanBeginLiteral"]
  ELSE scanError(s)

stateBeginStringOrEmpty(s, c) ==
  IF isSpace(c) THEN [s EXCEPT !.v = "scanSkipSpace"]
  ELSE IF c = "}"
    THEN stateEndValue([s EXCEPT !.parseState[Len(s.parseState)] = "parseObjectValue"], c)
  ELSE stateBeginString([s EXCEPT !.step = "BeginString"], c)

stateBeginValue(s, c) ==
  IF isSpace(c) THEN [s EXCEPT !.v = "scanSkipSpace"]
  ELSE IF c = "{"
    THEN [s EXCEPT !.parseState = Append(s.parseState, "parseObjectKey"),
                   !.step = "BeginStringOrEmpty", !.v = "scanBeginObject"]
  ELSE IF isLiteral(c) THEN [s EXCEPT !.step = "EndValue", !.v = "scanBeginLiteral"]
  ELSE scanError(s)

scanStep(s, c) ==
  CASE s.step = "BeginValue" -> stateBeginValue(s, c)
    [] s.step = "BeginStringOrEmpty" -> stateBeginStringOrEmpty(s, c)
    [] s.step = "BeginString" -> stateBeginString(s, c)
    [] s.step = "EndValue" -> stateEndValue(s, c)
    [] s.step = "EndTop" -> stateEndTop(s, c)
    [] OTHER -> scanError(s)

\* scanner.eof: TRUE when the input seen so far is one complete JSON value
scanEOF(s) ==
  IF s.err THEN FALSE
  ELSE IF s.endTop THEN TRUE
  ELSE scanStep(s, " ").endTop

RECURSIVE scanAll(_, _, _)
scanAll(src, i, s) ==
  IF i > Len(src) \/ s.err THEN s ELSE scanAll(src, i + 1, scanStep(s, src[i]))

\* json.Valid / checkValid
validJSON(src) == scanEOF(scanAll(src, 1, newScanner))

\* encoding/json appendNewline with prefix "" and indent "  "
RECURSIVE indentSpaces(_)
indentSpaces(depth) ==
  IF depth <= 0 THEN <<>> ELSE <<" ", " ">> \o indentSpaces(depth - 1)

appendNewline(dst, depth) == dst \o <<"\n">> \o indentSpaces(depth)

\* one round of the loop of encoding/json appendIndent; keepSpace = FALSE is
\* the library's behaviour (white space between tokens is dropped)
indentByte(a, c, keepSpace) ==
  LET s == scanStep(a.scan, c)
      a1 == [a EXCEPT !.scan = s]
      open == a.needIndent /\ s.v # "scanEndObject"
      a2 == IF open
              THEN [a1 EXCEPT !.needIndent = FALSE, !.depth = a.depth + 1,
                              !.dst = appendNewline(a.dst, a.depth + 1)]
              ELSE a1
  IN IF s.v = "scanSkipSpace"
       THEN IF keepSpace THEN [a1 EXCEPT !.dst = Append(a.dst, c)] ELSE a1
     ELSE IF s.v = "scanError" THEN a1
     ELSE IF c = "{"
       THEN [a2 EXCEPT !.needIndent = TRUE, !.dst = Append(a2.dst, c)]
     ELSE IF c = ","
       THEN [a2 EXCEPT !.dst = appendNewline(Append(a2.dst, c), a2.depth)]
     ELSE IF c = ":"
       THEN [a2 EXCEPT !.dst = a2.dst \o <<":", " ">>]
     ELSE IF c = "}"
       THEN IF a2.needIndent
              THEN [a2 EXCEPT !.needIndent = FALSE, !.dst = Append(a2.dst, c)]
              ELSE [a2 EXCEPT !.depth = a2.depth - 1,
                              !.dst = Append(appendNewline(a2.dst, a2.depth - 1), c)]
     ELSE [a2 EXCEPT !.dst = Append(a2.dst, c)]

RECURSIVE appendIndent(_, _, _, _)
appendIndent(src, i, a, keepSpace) ==
  IF i > Len(src) \/ a.scan.err THEN a
  ELSE appendIndent(src, i + 1, indentByte(a, src[i], keepSpace), keepSpace)

\* json.Indent(&pretty, raw, "", "  "): [ok, out]
jsonIndent(raw, keepSpace) ==
  LET a == appendIndent(raw, 1,
             [scan |-> newScanner, needIndent |-> FALSE, depth |-> 0, dst |-> <<>>],
             keepSpace)
  IN [ok |-> scanEOF(a.scan), out |-> a.dst]

\* a prettyJSON that copies the white space of its input instead of dropping it
prettyJSONKeepSpace(raw) ==
  LET r == jsonIndent(raw, TRUE) IN IF r.ok THEN r.out ELSE raw

\* prettyJSON formats raw JSON with indentation, falling back to the raw
\* string on error
prettyJSON(raw) ==
  LET r == jsonIndent(raw, FALSE) IN IF r.ok THEN r.out ELSE raw

(***************************************************************************)
(* Blocks (ChatBlock) and the helpers of the decoder.                      *)
(***************************************************************************)
BlockText == "text"
BlockToolUse == "tool_use"
BlockToolResult == "tool_result"
\* the kind renderBlocks shows as a "Thinking:" card
BlockThinking == "thinking"

\* a nil *TaskResultMeta
nilMeta == [present |-> FALSE, AgentID |-> "", TotalDurationMs |-> 0,
            TotalTokens |-> 0, TotalToolUseCount |-> 0]

\* the zero ChatBlock
ChatBlock ==
  [Kind |-> "", Text |-> <<>>, ToolName |-> "", ToolID |-> "", ToolInput |-> <<>>,
   ToolOutput |-> <<>>, IsError |-> FALSE, IsTask |-> FALSE,
   TaskDescription |-> "", TaskSubagentType |-> "", TaskPrompt |-> "",
   TaskSubBlocks |-> <<>>, TaskMeta |-> nilMeta]

\* the tokens of a JSON text that are not white space
nonSpace(raw) == SelectSeq(raw, LAMBDA c : ~isSpace(c))

\* nesting depth in front of token i of a white-space free JSON text
depthBefore(t, i) ==
  Cardinality({j \in 1..(i - 1) : t[j] = "{"}) - Cardinality({j \in 1..(i - 1) : t[j] = "}"})

\* positions of the member names of the top-level object
topLevelKeys(t) ==
  {i \in 1..Len(t) : /\ isLiteral(t[i])
                     /\ i + 2 <= Len(t)
                     /\ t[i + 1] = ":"
                     /\ depthBefore(t, i) = 1}

\* json.Unmarshal of rawInput into struct{Description, SubagentType, Prompt string}:
\* [ok, Description, SubagentType, Prompt].  A text that is not valid JSON, a
\* top-level value that is not an object, and a non-string value of one of the
\* three members are errors; of a repeated member the last one counts.
unmarshalTaskInput(rawInput) ==
  LET t == nonSpace(rawInput)
      keys == topLevelKeys(t)
      named(f) == {i \in keys : literalValue(t[i]) = f}
      last(S) == CHOOSE i \in S : \A j \in S : j <= i
      field(f) == IF named(f) = {} THEN "" ELSE literalValue(t[last(named(f)) + 2])
      fields == {"description", "subagent_type", "prompt"}
      typeError == \E i \in keys : literalValue(t[i]) \in fields /\ ~isLiteral(t[i + 2])
  IN [ok |-> validJSON(rawInput) /\ Len(t) > 0 /\ t[1] = "{" /\ ~typeError,
      Description |-> field("description"),
      SubagentType |-> field("subagent_type"),
      Prompt |-> field("prompt")]

\* parseTaskInput extracts Task tool input fields from JSON into the ChatBlock
parseTaskInput(cb, rawInput) ==
  LET input == unmarshalTaskInput(rawInput)
  IN IF input.ok
       THEN [cb EXCEPT !.TaskDescription = input.Description,
                       !.TaskSubagentType = input.SubagentType,
                       !.TaskPrompt = input.Prompt]
       ELSE cb

\* extractParentToolUseID returns the parent_tool_use_id of an event, or "";
\* an absent, null or empty parent_tool_use_id is the field value ""
extractParentToolUseID(ev) == ev.parent_tool_use_id

\* a findTaskBlockIndex that answers the last matching block instead of the first
findTaskBlockIndexLast(blocks, toolID) ==
  LET hit == {i \in 1..Len(blocks) : /\ blocks[i].Kind = BlockToolUse
                                     /\ blocks[i].IsTask
                                     /\ blocks[i].ToolID = toolID}
  IN IF hit = {} THEN 0 ELSE CHOOSE i \in hit : \A j \in hit : j <= i

\* findTaskBlockIndex returns the index of the Task block with the given ToolID, or 0
findTaskBlockIndex(blocks, toolID) ==
  LET hit == {i \in 1..Len(blocks) : /\ blocks[i].Kind = BlockToolUse
                                     /\ blocks[i].IsTask
                                     /\ blocks[i].ToolID = toolID}
  IN IF hit = {} THEN 0 ELSE CHOOSE i \in hit : \A j \in hit : i <= j

\* parseToolUseResult extracts TaskResultMeta from the tool_use_result field of
\* a user event; nil when the field is absent
parseToolUseResult(ev) ==
  IF ev.tool_use_result.present THEN ev.tool_use_result ELSE nilMeta

\* strings.HasPrefix(t, "agentId:")
hasAgentIDPrefix(t) == Len(t) > 0 /\ t[1] = "agentId:"

RECURSIVE concatTexts(_, _, _)
concatTexts(items, i, stripAgentID) ==
  IF i > Len(items) THEN <<>>
  ELSE LET rest == concatTexts(items, i + 1, stripAgentID)
       IN IF ~items[i].hasText THEN rest
          ELSE IF stripAgentID /\ hasAgentIDPrefix(items[i].text) THEN rest
          ELSE items[i].text \o rest

\* an extractToolResultContent that strips the agentId items whatever the flag
extractToolResultContentAlwaysStrip(content, stripAgentID) ==
  CASE content.shape = "string" -> content.str
    [] content.shape = "array" -> concatTexts(content.items, 1, TRUE)
    [] OTHER -> content.str

\* extractToolResultContent converts tool result content (string, array, or
\* other) to a string; for any other shape content.str is its JSON rendering
extractToolResultContent(content, stripAgentID) ==
  CASE content.shape = "string" -> content.str
    [] content.shape = "array" -> concatTexts(content.items, 1, stripAgentID)
    [] OTHER -> content.str

\* an extractDeltas that returns every member of the delta, whatever its type
extractDeltasAll(ev) ==
  IF ev.event.type = "content_block_delta"
    THEN [Text |-> ev.event.delta.text, Thinking |-> ev.event.delta.thinking,
          InputJSON |-> ev.event.delta.partial_json]
    ELSE [Text |-> <<>>, Thinking |-> <<>>, InputJSON |-> <<>>]

\* extractDeltas: the text, thinking and tool input fragment of a
\* content_block_delta event, whatever the type of the line that wraps it
extractDeltas(ev) ==
  LET none == [Text |-> <<>>, Thinking |-> <<>>, InputJSON |-> <<>>]
  IN IF ev.event.type = "content_block_delta"
       THEN CASE ev.event.delta.type = "text_delta" ->
                   [none EXCEPT !.Text = ev.event.delta.text]
              [] ev.event.delta.type = "thinking_delta" ->
                   [none EXCEPT !.Thinking = ev.event.delta.thinking]
              [] ev.event.delta.type = "input_json_delta" ->
                   [none EXCEPT !.InputJSON = ev.event.delta.partial_json]
              [] OTHER -> none
       ELSE none

\* a lastBlockIndex that returns the first block with the given kind
lastBlockIndexFirst(blocks, kind) ==
  LET hit == {i \in 1..Len(blocks) : blocks[i].Kind = kind}
  IN IF hit = {} THEN 0 ELSE CHOOSE i \in hit : \A j \in hit : i <= j

\* a lastBlockIndex that finds no block of any kind
lastBlockIndexNone(blocks, kind) == 0

\* lastBlockIndex returns the index of the last block with the given kind, or 0
lastBlockIndex(blocks, kind) ==
  LET hit == {i \in 1..Len(blocks) : blocks[i].Kind = kind}
  IN IF hit = {} THEN 0 ELSE CHOOSE i \in hit : \A j \in hit : j <= i

(***************************************************************************)
(* Decoded events.  An event is the StreamEvent of one stdout line, given  *)
(* by the fields of its raw JSON that the program reads:                   *)
(*   type, parent_tool_use_id, message.content, content_block,             *)
(*   event.{type, content_block, delta}, tool_use_result.                  *)
(***************************************************************************)
noContentBlock == [type |-> "", id |-> "", name |-> "", input |-> <<>>]
noDelta == [type |-> "", text |-> <<>>, thinking |-> <<>>, partial_json |-> <<>>]
noInner == [type |-> "", content_block |-> noContentBlock, delta |-> noDelta]
noContent == [shape |-> "other", str |-> <<"null">>, items |-> <<>>]

\* the members parseInitEvent and parseRateLimitEvent decode; ok is FALSE when
\* json.Unmarshal into their struct returns an error
noInit == [ok |-> TRUE, model |-> "", claude_code_version |-> "", tools |-> <<>>,
           permissionMode |-> "", plugins |-> <<>>]
noRateLimitInfo == [ok |-> TRUE, status |-> "", resetsAt |-> 0, overageStatus |-> "",
                    isUsingOverage |-> FALSE]

Line(type) ==
  [type |-> type, subtype |-> "", parent_tool_use_id |-> "", content |-> <<>>,
   content_block |-> noContentBlock, event |-> noInner, tool_use_result |-> nilMeta,
   init |-> noInit, rate_limit_info |-> noRateLimitInfo]

\* one item of message.content
Item(type) ==
  [type |-> type, text |-> <<>>, id |-> "", name |-> "", input |-> <<>>,
   tool_use_id |-> "", content |-> noContent, is_error |-> FALSE]

TextItem(text) == [Item("text") EXCEPT !.text = text]
ToolUseItem(id, name, input) ==
  [Item("tool_use") EXCEPT !.id = id, !.name = name, !.input = input]
ToolResultItem(id, content, isError) ==
  [Item("tool_result") EXCEPT !.tool_use_id = id, !.content = content, !.is_error = isError]

StringContent(str) == [shape |-> "string", str |-> str, items |-> <<>>]
ArrayContent(texts) ==
  [shape |-> "array", str |-> <<>>,
   items |-> [i \in 1..Len(texts) |-> [hasText |-> TRUE, text |-> texts[i]]]]

ToolUseBlock(id, name, input) ==
  [type |-> "tool_use", id |-> id, name |-> name, input |-> input]

\* {"type":"content_block_start","content_block":{...}}
BlockStartLine(cb) == [Line("content_block_start") EXCEPT !.content_block = cb]

\* {"type":"stream_event","event":{"type":"content_block_start","content_block":{...}}}
WrappedBlockStartLine(cb) ==
  [Line("stream_event") EXCEPT
     !.event = [noInner EXCEPT !.type = "content_block_start", !.content_block = cb]]

\* {"type":"stream_event","event":{"type":"content_block_delta","delta":{...}}}
DeltaLine(parent, delta) ==
  [Line("stream_event") EXCEPT
     !.parent_tool_use_id = parent,
     !.event = [noInner EXCEPT !.type = "content_block_delta", !.delta = delta]]

TextDelta(text) == [noDelta EXCEPT !.type = "text_delta", !.text = text]
ThinkingDelta(text) == [noDelta EXCEPT !.type = "thinking_delta", !.thinking = text]
InputJSONDelta(json) == [noDelta EXCEPT !.type = "input_json_delta", !.partial_json = json]

MessageLine(type, parent, content) ==
  [Line(type) EXCEPT !.parent_tool_use_id = parent, !.content = content]

EmptyObject == <<"{", "}">>
TaskInputHead == <<"{", "\"description\"", ":", "\"find\"">>
TaskInputTail == <<",", " ", "\"prompt\"", ":", "\"ls\"", "}">>
CommandInput == <<"{", "\"command\"", ":", "\"ls\"", "}">>
AgentResult == ArrayContent(<< <<"agentId:", "abc">>, <<"done">> >>)
AgentMeta == [present |-> TRUE, AgentID |-> "abc", TotalDurationMs |-> 5000,
              TotalTokens |-> 100, TotalToolUseCount |-> 3]

\* the lines the subprocess writes in this model
BlockStartLines ==
  {BlockStartLine(ToolUseBlock("t1", "Bash", EmptyObject)),
   WrappedBlockStartLine(ToolUseBlock("task1", "Task", EmptyObject)),
   WrappedBlockStartLine([noContentBlock EXCEPT !.type = "text"])}

DeltaLines ==
  {DeltaLine("", TextDelta(<<"Hel">>)),
   DeltaLine("", TextDelta(<<"lo">>)),
   DeltaLine("t1", TextDelta(<<"Hel">>)),
   DeltaLine("", ThinkingDelta(<<"hm">>)),
   DeltaLine("", InputJSONDelta(TaskInputHead)),
   DeltaLine("", InputJSONDelta(TaskInputHead \o TaskInputTail))}

AssistantLines ==
  {MessageLine("assistant", "",
     <<TextItem(<<"Hel", "lo">>), ToolUseItem("t1", "Bash", CommandInput)>>),
   MessageLine("assistant", "task1",
     <<ToolUseItem("sub1", "Read", CommandInput), ToolUseItem("t1", "Task", EmptyObject)>>),
   MessageLine("assistant", "t1", <<ToolUseItem("sub1", "Read", CommandInput)>>)}

UserLines ==
  {MessageLine("user", "", <<ToolResultItem("t1", StringContent(<<"ok">>), FALSE)>>),
   MessageLine("user", "", <<ToolResultItem("t1", AgentResult, TRUE)>>),
   [MessageLine("user", "", <<ToolResultItem("task1", AgentResult, FALSE)>>)
      EXCEPT !.tool_use_result = AgentMeta],
   MessageLine("user", "task1", <<ToolResultItem("sub1", AgentResult, FALSE)>>)}

Lines == BlockStartLines \cup DeltaLines \cup AssistantLines \cup UserLines

(***************************************************************************)
(* The streaming assembler: ChatModel.parseStreamBlock and addContentBlock *)
(***************************************************************************)
\* inputStr of a tool_use item: "{}" when the item has no input
inputString(input) == IF Len(input) > 0 THEN prettyJSON(input) ELSE EmptyObject

\* a sub-block that is flagged as a delegation when its tool is named Task
subToolUseAsTask(item) ==
  [ChatBlock EXCEPT !.Kind = BlockToolUse, !.ToolName = item.name,
                    !.ToolID = item.id, !.ToolInput = inputString(item.input),
                    !.IsTask = (item.name = "Task")]

\* the sub-block of one tool_use item of a subagent assistant event
subToolUse(item) ==
  [ChatBlock EXCEPT !.Kind = BlockToolUse, !.ToolName = item.name,
                    !.ToolID = item.id, !.ToolInput = inputString(item.input)]

\* a tool-result block whose output keeps or strips the agentId items
toolResultBlock(item, stripAgentID) ==
  [ChatBlock EXCEPT !.Kind = BlockToolResult, !.ToolID = item.tool_use_id,
                    !.ToolOutput = extractToolResultContent(item.content, stripAgentID),
                    !.IsError = item.is_error]

\* a subBlocksOf that strips the agentId items of the sub-results too
RECURSIVE subBlocksOfStrip(_, _)
subBlocksOfStrip(ev, i) ==
  IF i > Len(ev.content) THEN <<>>
  ELSE LET item == ev.content[i]
           rest == subBlocksOfStrip(ev, i + 1)
       IN IF ev.type = "assistant" /\ item.type = "tool_use"
            THEN <<subToolUse(item)>> \o rest
          ELSE IF ev.type = "user" /\ item.type = "tool_result"
            THEN <<toolResultBlock(item, TRUE)>> \o rest
          ELSE rest

\* the blocks a subagent event appends to its Task block, in item order
RECURSIVE subBlocksOf(_, _)
subBlocksOf(ev, i) ==
  IF i > Len(ev.content) THEN <<>>
  ELSE LET item == ev.content[i]
           rest == subBlocksOf(ev, i + 1)
       IN IF ev.type = "assistant" /\ item.type = "tool_use"
            THEN <<subToolUse(item)>> \o rest
          ELSE IF ev.type = "user" /\ item.type = "tool_result"
            THEN <<toolResultBlock(item, FALSE)>> \o rest
          ELSE rest

\* a routing of subagent events that never parses the Task input
routeSubagentEventNoLazy(blocks, ev, taskIdx) ==
  [blocks EXCEPT ![taskIdx].TaskSubBlocks = @ \o subBlocksOf(ev, 1)]

\* parseStreamBlock, the branch of a subagent event whose Task block is at
\* taskIdx: parse the Task input lazily, then append the event's sub-blocks
routeSubagentEvent(blocks, ev, taskIdx) ==
  LET task == blocks[taskIdx]
      parsed == IF task.TaskDescription = "" /\ task.ToolInput # <<>>
                  THEN parseTaskInput(task, task.ToolInput)
                  ELSE task
  IN [blocks EXCEPT ![taskIdx] =
        [parsed EXCEPT !.TaskSubBlocks = parsed.TaskSubBlocks \o subBlocksOf(ev, 1)]]

\* a newContentBlock that opens a Text block for every other declared type
newContentBlockAnyType(cb) ==
  IF cb.type = "tool_use"
    THEN <<[ChatBlock EXCEPT !.Kind = BlockToolUse, !.ToolName = cb.name,
                             !.ToolID = cb.id, !.IsTask = (cb.name = "Task")]>>
    ELSE <<[ChatBlock EXCEPT !.Kind = BlockText]>>

\* the block a content_block announces: none for a type other than text and tool_use
newContentBlock(cb) ==
  CASE cb.type = "text" -> <<[ChatBlock EXCEPT !.Kind = BlockText]>>
    [] cb.type = "tool_use" ->
         <<[ChatBlock EXCEPT !.Kind = BlockToolUse, !.ToolName = cb.name,
                             !.ToolID = cb.id, !.IsTask = (cb.name = "Task")]>>
    [] OTHER -> <<>>

\* an addContentBlock that loses the id of the announced tool
addContentBlockNoID(blocks, cb) ==
  blocks \o [i \in 1..Len(newContentBlock(cb)) |->
               [newContentBlock(cb)[i] EXCEPT !.ToolID = ""]]

\* addContentBlock adds the block of a content_block_start event; the
\* stream_event branch of parseStreamBlock appends the same block
addContentBlock(blocks, cb) == blocks \o newContentBlock(cb)

\* a top-level tool result that is not appended when it closes a Task
appendToolResultTaskOnly(blocks, ev, item) ==
  LET taskIdx == findTaskBlockIndex(blocks, item.tool_use_id)
  IN IF taskIdx > 0
       THEN [blocks EXCEPT ![taskIdx].TaskMeta = parseToolUseResult(ev)]
       ELSE Append(blocks, toolResultBlock(item, FALSE))

\* parseStreamBlock, one tool_result item of a top-level user event
appendToolResult(blocks, ev, item) ==
  LET taskIdx == findTaskBlockIndex(blocks, item.tool_use_id)
  IN IF taskIdx > 0
       THEN Append([blocks EXCEPT ![taskIdx].TaskMeta = parseToolUseResult(ev)],
                   toolResultBlock(item, TRUE))
       ELSE Append(blocks, toolResultBlock(item, FALSE))

RECURSIVE userToolResults(_, _, _)
userToolResults(blocks, ev, i) ==
  IF i > Len(ev.content) THEN blocks
  ELSE IF ev.content[i].type = "tool_result"
    THEN userToolResults(appendToolResult(blocks, ev, ev.content[i]), ev, i + 1)
  ELSE userToolResults(blocks, ev, i + 1)

\* a parseStreamBlock that opens the missing Task block of an orphaned subagent event
parseStreamBlockLateBind(blocks, ev) ==
  LET parentID == extractParentToolUseID(ev)
      taskIdx == findTaskBlockIndex(blocks, parentID)
      opened == Append(blocks, [ChatBlock EXCEPT !.Kind = BlockToolUse, !.ToolName = "Task",
                                                 !.ToolID = parentID, !.IsTask = TRUE])
  IN IF parentID # ""
       THEN IF taskIdx = 0
              THEN routeSubagentEvent(opened, ev, Len(opened))
              ELSE routeSubagentEvent(blocks, ev, taskIdx)
     ELSE CASE ev.type = "content_block_start" -> addContentBlock(blocks, ev.content_block)
            [] ev.type = "stream_event" ->
                 IF ev.event.type = "content_block_start"
                   THEN addContentBlock(blocks, ev.event.content_block)
                   ELSE blocks
            [] ev.type = "user" -> userToolResults(blocks, ev, 1)
            [] OTHER -> blocks

\* parseStreamBlock handles content_block_start, user/tool_result, and subagent
\* events from streaming
parseStreamBlock(blocks, ev) ==
  LET parentID == extractParentToolUseID(ev)
      taskIdx == findTaskBlockIndex(blocks, parentID)
  IN IF parentID # ""
       THEN IF taskIdx = 0 THEN blocks ELSE routeSubagentEvent(blocks, ev, taskIdx)
     ELSE CASE ev.type = "content_block_start" -> addContentBlock(blocks, ev.content_block)
            [] ev.type = "stream_event" ->
                 IF ev.event.type = "content_block_start"
                   THEN addContentBlock(blocks, ev.event.content_block)
                   ELSE blocks
            [] ev.type = "user" -> userToolResults(blocks, ev, 1)
            [] OTHER -> blocks

(***************************************************************************)
(* The batch extractor: ClaudeResponse.ExtractBlocks                       *)
(***************************************************************************)
\* one item of a subagent event: appended to the Task block found at that moment
extractSubItem(blocks, ev, item) ==
  LET idx == findTaskBlockIndex(blocks, extractParentToolUseID(ev))
      sub == IF ev.type = "assistant" THEN subToolUse(item) ELSE toolResultBlock(item, FALSE)
  IN IF idx > 0
       THEN [blocks EXCEPT ![idx].TaskSubBlocks = Append(blocks[idx].TaskSubBlocks, sub)]
       ELSE blocks

\* an item handler that makes a Text block of an empty text item too
extractAssistantItemKeepEmpty(blocks, item) ==
  CASE item.type = "text" ->
         Append(blocks, [ChatBlock EXCEPT !.Kind = BlockText, !.Text = item.text])
    [] item.type = "tool_use" ->
         LET cb == [ChatBlock EXCEPT !.Kind = BlockToolUse, !.ToolName = item.name,
                                     !.ToolID = item.id,
                                     !.ToolInput = inputString(item.input)]
         IN Append(blocks,
                   IF item.name = "Task"
                     THEN parseTaskInput([cb EXCEPT !.IsTask = TRUE], cb.ToolInput)
                     ELSE cb)
    [] OTHER -> blocks

\* one item of a top-level assistant event
extractAssistantItem(blocks, item) ==
  CASE item.type = "text" ->
         IF item.text # <<>>
           THEN Append(blocks, [ChatBlock EXCEPT !.Kind = BlockText, !.Text = item.text])
           ELSE blocks
    [] item.type = "tool_use" ->
         LET cb == [ChatBlock EXCEPT !.Kind = BlockToolUse, !.ToolName = item.name,
                                     !.ToolID = item.id,
                                     !.ToolInput = inputString(item.input)]
         IN Append(blocks,
                   IF item.name = "Task"
                     THEN parseTaskInput([cb EXCEPT !.IsTask = TRUE], cb.ToolInput)
                     ELSE cb)
    [] OTHER -> blocks

\* the items of one assistant or user event, in order
RECURSIVE extractItems(_, _, _)
extractItems(blocks, ev, i) ==
  IF i > Len(ev.content) THEN blocks
  ELSE LET item == ev.content[i]
           sub == extractParentToolUseID(ev) # ""
           next ==
             CASE ev.type = "assistant" /\ sub ->
                    IF item.type = "tool_use" THEN extractSubItem(blocks, ev, item) ELSE blocks
               [] ev.type = "assistant" /\ ~sub -> extractAssistantItem(blocks, item)
               [] ev.type = "user" /\ sub ->
                    IF item.type = "tool_result" THEN extractSubItem(blocks, ev, item) ELSE blocks
               [] ev.type = "user" /\ ~sub ->
                    IF item.type = "tool_result" THEN appendToolResult(blocks, ev, item) ELSE blocks
               [] OTHER -> blocks
       IN extractItems(next, ev, i + 1)

\* one event of the loop of ExtractBlocks
extractEvent(blocks, ev) ==
  CASE ev.type \in {"assistant", "user"} -> extractItems(blocks, ev, 1)
    [] ev.type = "content_block_start" ->
         IF ev.content_block.type = "tool_use"
           THEN Append(blocks,
                  [ChatBlock EXCEPT !.Kind = BlockToolUse,
                                    !.ToolName = ev.content_block.name,
                                    !.ToolID = ev.content_block.id,
                                    !.ToolInput = inputString(ev.content_block.input),
                                    !.IsTask = (ev.content_block.name = "Task")])
           ELSE blocks
    [] OTHER -> blocks

RECURSIVE extractFrom(_, _, _)
extractFrom(blocks, evs, i) ==
  IF i > Len(evs) THEN blocks ELSE extractFrom(extractEvent(blocks, evs[i]), evs, i + 1)

\* ExtractBlocks parses all assistant and tool_result events into an ordered
\* list of ChatBlocks
ExtractBlocks(evs) == extractFrom(<<>>, evs, 1)

(***************************************************************************)
(* ChatModel.Update: the stream messages                                   *)
(***************************************************************************)
\* the zero ClaudeResult: the members the handlers of a finished stream read,
\* the cost in units of its smallest amount
ClaudeResult ==
  [Type |-> "", SessionID |-> "", CostUSD |-> 0, InputTokens |-> 0, OutputTokens |-> 0]

\* chatEntry
chatEntry ==
  [role |-> "", text |-> <<>>, thinking |-> <<>>, blocks |-> <<>>, hasResult |-> FALSE,
   streaming |-> FALSE, streamThinking |-> <<>>, streamText |-> <<>>,
   result |-> ClaudeResult]

\* a delta application that writes the thinking fragment into the text block too
applyDeltasThinkingAsText(blocks, deltas) ==
  LET frag == deltas.Thinking \o deltas.Text
      ti == lastBlockIndex(blocks, BlockText)
  IN IF frag = <<>> THEN blocks
     ELSE IF ti > 0 THEN [blocks EXCEPT ![ti].Text = blocks[ti].Text \o frag]
     ELSE Append(blocks, [ChatBlock EXCEPT !.Kind = BlockText, !.Text = frag])

\* a delta application that opens a tool block for an input fragment that finds none
applyDeltasOpenTool(blocks, deltas) ==
  LET ti == lastBlockIndex(blocks, BlockText)
      withText ==
        IF deltas.Text = <<>> THEN blocks
        ELSE IF ti > 0 THEN [blocks EXCEPT ![ti].Text = blocks[ti].Text \o deltas.Text]
        ELSE Append(blocks, [ChatBlock EXCEPT !.Kind = BlockText, !.Text = deltas.Text])
      ui == lastBlockIndex(withText, BlockToolUse)
  IN IF deltas.InputJSON = <<>> THEN withText
     ELSE IF ui > 0
       THEN [withText EXCEPT ![ui].ToolInput = withText[ui].ToolInput \o deltas.InputJSON]
     ELSE Append(withText, [ChatBlock EXCEPT !.Kind = BlockToolUse,
                                            !.ToolInput = deltas.InputJSON])

\* a delta application that overwrites the text of the last text block
applyDeltasReplaceText(blocks, deltas) ==
  LET ti == lastBlockIndex(blocks, BlockText)
      withText ==
        IF deltas.Text = <<>> THEN blocks
        ELSE IF ti > 0 THEN [blocks EXCEPT ![ti].Text = deltas.Text]
        ELSE Append(blocks, [ChatBlock EXCEPT !.Kind = BlockText, !.Text = deltas.Text])
      ui == lastBlockIndex(withText, BlockToolUse)
  IN IF deltas.InputJSON # <<>> /\ ui > 0
       THEN [withText EXCEPT ![ui].ToolInput = withText[ui].ToolInput \o deltas.InputJSON]
       ELSE withText

\* ClaudeStreamChunkMsg, "Apply deltas to the appropriate block": the blocks
\* after the text and the tool-input fragment of a chunk
applyDeltas(blocks, deltas) ==
  LET ti == lastBlockIndex(blocks, BlockText)
      withText ==
        IF deltas.Text = <<>> THEN blocks
        ELSE IF ti > 0 THEN [blocks EXCEPT ![ti].Text = blocks[ti].Text \o deltas.Text]
        ELSE Append(blocks, [ChatBlock EXCEPT !.Kind = BlockText, !.Text = deltas.Text])
      ui == lastBlockIndex(withText, BlockToolUse)
  IN IF deltas.InputJSON # <<>> /\ ui > 0
       THEN [withText EXCEPT ![ui].ToolInput = withText[ui].ToolInput \o deltas.InputJSON]
       ELSE withText

\* a chunk handler that opens a block for every event that is not a fragment
streamChunkOpensBlock(last, ev) ==
  LET deltas == extractDeltas(ev)
      parsed == parseStreamBlock(last.blocks, ev)
      opened == IF ev.type \in {"system", "rate_limit_event"}
                  THEN Append(parsed, [ChatBlock EXCEPT !.Kind = BlockText])
                  ELSE parsed
  IN [last EXCEPT !.blocks = applyDeltas(opened, deltas),
                  !.streamThinking = last.streamThinking \o deltas.Thinking,
                  !.streamText = last.streamText \o deltas.Text]

\* ClaudeStreamChunkMsg applied to the streaming entry
streamChunk(last, ev) ==
  LET deltas == extractDeltas(ev)
  IN [last EXCEPT !.blocks = applyDeltas(parseStreamBlock(last.blocks, ev), deltas),
                  !.streamThinking = last.streamThinking \o deltas.Thinking,
                  !.streamText = last.streamText \o deltas.Text]

\* a finalization that re-indents and parses the input of delegations only
finalizeBlockTaskOnly(b) ==
  IF b.Kind = BlockToolUse /\ b.ToolInput # <<>> /\ b.IsTask
    THEN LET p == [b EXCEPT !.ToolInput = prettyJSON(b.ToolInput)]
         IN parseTaskInput(p, p.ToolInput)
    ELSE b

\* ClaudeStreamDoneMsg: "Pretty-print tool input JSON and parse Task inputs now
\* that streaming is done", one block
finalizeBlock(b) ==
  IF b.Kind = BlockToolUse /\ b.ToolInput # <<>>
    THEN LET p == [b EXCEPT !.ToolInput = prettyJSON(b.ToolInput)]
         IN IF p.IsTask THEN parseTaskInput(p, p.ToolInput) ELSE p
    ELSE b

finalizeBlocks(blocks) == [i \in 1..Len(blocks) |-> finalizeBlock(blocks[i])]

\* ClaudeStreamDoneMsg with a Response: the streaming entry finalized in place
finalizeEntry(last) ==
  [last EXCEPT !.streaming = FALSE, !.text = last.streamText,
               !.thinking = last.streamThinking, !.hasResult = TRUE,
               !.blocks = finalizeBlocks(last.blocks)]

(***************************************************************************)
(* The state machine.  One prompt is in flight at a time: the user does    *)
(* not press Enter again before the stream of the last prompt has started. *)
(***************************************************************************)
\* ChatModel before the first response
noStats ==
  [sessionID |-> "", totalRequests |-> 0, totalCost |-> 0, totalInputTok |-> 0,
   totalOutputTok |-> 0, lastCost |-> 0, lastInputTok |-> 0]

\* a handler that counts requests only
updateSessionStatsCountOnly(st, result) ==
  [st EXCEPT !.totalRequests = @ + 1,
             !.sessionID = result.SessionID]

\* ClaudeStreamDoneMsg with a Response: the session id of a result that has
\* one, then updateSessionStats
updateSessionStats(st, result) ==
  [st EXCEPT !.sessionID = IF result.SessionID # "" THEN result.SessionID ELSE @,
             !.totalRequests = @ + 1,
             !.totalCost = @ + result.CostUSD,
             !.totalInputTok = @ + result.InputTokens,
             !.totalOutputTok = @ + result.OutputTokens,
             !.lastCost = result.CostUSD,
             !.lastInputTok = result.InputTokens]

\* ChatModel before the first init and rate limit event
noBanner ==
  [initReceived |-> FALSE, initModel |-> "", initVersion |-> "", initNumTools |-> 0,
   initPermMode |-> "", initPlugins |-> <<>>,
   rateLimitStatus |-> "", rateLimitResetsAt |-> 0, rateLimitOverage |-> "",
   rateLimitIsOverage |-> FALSE]

\* parseInitEvent extracts the startup banner from a system/init event
parseInitEvent(b, ev) ==
  IF ev.init.ok
    THEN [b EXCEPT !.initModel = ev.init.model,
                   !.initVersion = ev.init.claude_code_version,
                   !.initNumTools = Len(ev.init.tools),
                   !.initPermMode = ev.init.permissionMode,
                   !.initPlugins = @ \o ev.init.plugins,
                   !.initReceived = TRUE]
    ELSE b

\* parseRateLimitEvent extracts rate limit info from a rate_limit_event
parseRateLimitEvent(b, ev) ==
  IF ev.rate_limit_info.ok
    THEN [b EXCEPT !.rateLimitStatus = ev.rate_limit_info.status,
                   !.rateLimitResetsAt = ev.rate_limit_info.resetsAt,
                   !.rateLimitOverage = ev.rate_limit_info.overageStatus,
                   !.rateLimitIsOverage = ev.rate_limit_info.isUsingOverage]
    ELSE b

\* ClaudeStreamChunkMsg: "Extract init event data for startup banner" and
\* "Extract rate limit info"
bannerChunk(b, ev) ==
  LET withInit == IF ev.type = "system" /\ ev.subtype = "init" /\ ~b.initReceived
                    THEN parseInitEvent(b, ev)
                    ELSE b
  IN IF ev.type = "rate_limit_event" THEN parseRateLimitEvent(withInit, ev) ELSE withInit

\* StreamEvent as parseEventLine fills it: type, subtype and the raw line
noEvent == [Type |-> "", Subtype |-> "", Raw |-> <<>>]

\* streamDeltas{}
noDeltas == [Text |-> <<>>, Thinking |-> <<>>, InputJSON |-> <<>>]

\* no call of wrapText yet
noWrap == [pc |-> "idle", text |-> <<>>, width |-> 0, paragraphs |-> <<>>, para |-> 0,
           remaining |-> <<>>, lines |-> <<>>]

\* NewChatModel and Init: scroll mode is off, the textarea is focused and
\* empty
newUI == [scrollMode |-> FALSE, focused |-> TRUE, value |-> <<>>,
          viewport |-> <<>>, keys |-> <<>>]

\* interactive mode before the first key press: Update has returned no
\* command, no message waits, StartInteractive and SendPrompt were never
\* called, no goroutine of SendPrompt has read from the PTY, no text
\* was received from a channel
noPending == [cmds |-> EmptyBag, msgs |-> EmptyBag, started |-> 0,
              sent |-> <<>>, chans |-> <<>>, reads |-> 0, received |-> 0]

\* a session before its first SendPrompt: the lock is free, no call has been
\* made, nothing was written to or read from the PTY
newSession == [mu |-> 0, calls |-> <<>>, pty |-> <<>>]

\* the decoder before its first line: var result ClaudeResult; var model,
\* stopReason string
newDec ==
  [lines |-> <<>>, result |-> [Type |-> ""], model |-> "", stopReason |-> "",
   ev |-> noEvent, isNil |-> TRUE, resultErr |-> FALSE, deltas |-> noDeltas]

Init ==
  /\ entries = <<>>
  /\ streamCh = "nil"
  /\ cmd = "none"
  /\ events = <<>>
  /\ nInputs = 0
  /\ starting = 0
  /\ procs = <<>>
  /\ msgs = EmptyBag
  /\ dec = newDec
  /\ banner = noBanner
  /\ stats = noStats
  /\ isess = newSession
  /\ \E b \in BOOLEAN : imode = [interactive |-> b, iSession |-> 0, iStreamCh |-> "nil"]
  /\ ipend = noPending
  /\ kbd = newUI
  /\ perm = <<>>
  /\ wrap = noWrap

lastEntry == entries[Len(entries)]
hasStreamingEntry == Len(entries) > 0 /\ lastEntry.streaming

errorEntry(text) == [chatEntry EXCEPT !.role = "error", !.text = text]

\* KeyPressMsg "enter" with a non-empty input, print mode
Enter ==
  /\ streamCh = "nil"
  /\ imode.iStreamCh = "nil"
  /\ ~imode.interactive
  /\ cmd = "none"
  /\ nInputs < MaxInputs
  /\ nInputs' = nInputs + 1
  /\ entries' = Append(entries, [chatEntry EXCEPT !.role = "user", !.text = <<"prompt">>])
  /\ cmd' = "StreamClaude"
  /\ UNCHANGED <<streamCh, events, chVars, decVars, banner, stats, ptyVars, fnVars>>

\* StreamClaude started the subprocess: ClaudeStreamStartMsg
StreamStart ==
  /\ cmd = "StreamClaude"
  /\ streamCh' = "ch"
  /\ entries' = Append(entries, [chatEntry EXCEPT !.role = "assistant", !.streaming = TRUE])
  /\ events' = <<>>
  /\ cmd' = "waitForStreamMsg"
  /\ UNCHANGED <<nInputs, chVars, decVars, banner, stats, ptyVars, fnVars>>

\* ClaudeStreamDoneMsg with Err
streamDoneErr(text) ==
  /\ streamCh' = "nil"
  /\ entries' = IF hasStreamingEntry
                  THEN [entries EXCEPT ![Len(entries)] = errorEntry(text)]
                  ELSE Append(entries, errorEntry(text))
  /\ cmd' = "none"

\* StreamClaude could not start the subprocess: ClaudeStreamDoneMsg{Err}
StreamStartFails ==
  /\ cmd = "StreamClaude"
  /\ streamDoneErr(<<"start claude">>)
  /\ UNCHANGED <<events, nInputs, chVars, decVars, banner, stats, ptyVars, fnVars>>

\* The goroutine of StreamClaude reads one decodable line and sends its event;
\* waitForStreamMsg turns it into a ClaudeStreamChunkMsg, which Update handles
StreamChunk(ev) ==
  /\ cmd = "waitForStreamMsg"
  /\ nInputs < MaxInputs
  /\ nInputs' = nInputs + 1
  /\ events' = Append(events, ev)
  /\ entries' = IF streamCh # "nil" /\ hasStreamingEntry
                  THEN [entries EXCEPT ![Len(entries)] = streamChunk(lastEntry, ev)]
                  ELSE entries
  /\ banner' = IF streamCh # "nil" THEN bannerChunk(banner, ev) ELSE banner
  /\ cmd' = IF streamCh # "nil" THEN "waitForStreamMsg" ELSE "none"
  /\ UNCHANGED <<streamCh, chVars, decVars, stats, ptyVars, fnVars>>

\* The subprocess exits with status 0: StreamMsg{Done, Response}, handled as
\* ClaudeStreamDoneMsg with a Response
StreamDoneWith(result) ==
  /\ cmd = "waitForStreamMsg"
  /\ streamCh' = "nil"
  /\ entries' = IF hasStreamingEntry
                  THEN [entries EXCEPT ![Len(entries)] =
                          [finalizeEntry(lastEntry) EXCEPT !.result = result]]
                  ELSE entries
  /\ stats' = updateSessionStats(stats, result)
  /\ cmd' = "none"
  /\ events' = <<>>
  /\ UNCHANGED <<nInputs, chVars, decVars, banner, ptyVars, fnVars>>

\* the same with a result that has no session id, cost or token count
StreamDone == StreamDoneWith(ClaudeResult)

\* The subprocess exits with an error: StreamMsg{Done, Err}
StreamFails ==
  /\ cmd = "waitForStreamMsg"
  /\ streamDoneErr(<<"claude: exit status 1">>)
  /\ events' = <<>>
  /\ UNCHANGED <<nInputs, chVars, decVars, banner, stats, ptyVars, fnVars>>

Next ==
  \/ Enter
  \/ StreamStart
  \/ StreamStartFails
  \/ \E ev \in Lines : StreamChunk(ev)
  \/ StreamDone
  \/ StreamFails

Spec == Init /\ [][Next]_vars

(***************************************************************************)
(* The turn-level handlers fed with block-started events only: every       *)
(* declared type, bare and wrapped in a stream_event.                      *)
(***************************************************************************)
AnnouncedBlocks ==
  {[noContentBlock EXCEPT !.type = "text"],
   [noContentBlock EXCEPT !.type = "thinking"],
   ToolUseBlock("t1", "Bash", CommandInput),
   ToolUseBlock("task1", "Task", EmptyObject)}

BlockStartMenu ==
  {BlockStartLine(cb) : cb \in AnnouncedBlocks}
    \cup {WrappedBlockStartLine(cb) : cb \in AnnouncedBlocks}

NextBlk ==
  \/ Enter
  \/ StreamStart
  \/ \E ev \in BlockStartMenu : StreamChunk(ev)
  \/ StreamDone

SpecBlk == Init /\ [][NextBlk]_vars

(***************************************************************************)
(* The turn-level handlers fed with the session-level events (system and   *)
(* rate_limit_event) between block starts and text and thinking fragments. *)
(***************************************************************************)
\* {"type":"system","subtype":"init","model":...,"tools":[...],...}
SystemInitLine(model, plugins) ==
  [Line("system") EXCEPT
     !.subtype = "init",
     !.init = [noInit EXCEPT !.model = model, !.claude_code_version = "2.1",
                             !.tools = <<"Bash", "Read">>,
                             !.permissionMode = "default", !.plugins = plugins]]

\* {"type":"rate_limit_event","rate_limit_info":{...}}
RateLimitLine(status, resetsAt, overage) ==
  [Line("rate_limit_event") EXCEPT
     !.rate_limit_info = [noRateLimitInfo EXCEPT !.status = status,
                                                 !.resetsAt = resetsAt,
                                                 !.overageStatus = overage,
                                                 !.isUsingOverage = (overage # "")]]

SystemLines ==
  {SystemInitLine("m1", <<"p1">>),
   SystemInitLine("m2", <<>>),
   \* "tools" is not an array: json.Unmarshal of the init event fails
   [SystemInitLine("m1", <<"p1">>) EXCEPT !.init.ok = FALSE],
   [Line("system") EXCEPT !.subtype = "status"]}

RateLimitLines ==
  {RateLimitLine("allowed", 1, ""),
   RateLimitLine("rejected", 2, "allowed"),
   \* "resetsAt" is a string: json.Unmarshal of the rate limit event fails
   [RateLimitLine("rejected", 2, "") EXCEPT !.rate_limit_info.ok = FALSE]}

SessionMenu ==
  SystemLines \cup RateLimitLines
    \cup {WrappedBlockStartLine(ToolUseBlock("t1", "Bash", EmptyObject)),
          DeltaLine("", TextDelta(<<"Hel">>)),
          DeltaLine("", ThinkingDelta(<<"hm">>))}

NextSys ==
  \/ Enter
  \/ StreamStart
  \/ \E ev \in SessionMenu : StreamChunk(ev)
  \/ StreamDone

SpecSys == Init /\ [][NextSys]_vars

(***************************************************************************)
(* Interactive mode: the prompt goes to a persistent session, whose        *)
(* response arrives as plain text chunks.  One prompt is in flight.        *)
(***************************************************************************)
\* an interactive chunk handler that writes the text to the block only
interactiveChunkBlocksOnly(last, text) ==
  LET ti == lastBlockIndex(last.blocks, BlockText)
  IN [last EXCEPT
        !.blocks = IF ti > 0
                     THEN [last.blocks EXCEPT ![ti].Text = last.blocks[ti].Text \o text]
                     ELSE Append(last.blocks,
                                 [ChatBlock EXCEPT !.Kind = BlockText, !.Text = text])]

\* InteractiveChunkMsg applied to the streaming entry
interactiveChunk(last, text) ==
  LET ti == lastBlockIndex(last.blocks, BlockText)
  IN [last EXCEPT
        !.streamText = last.streamText \o text,
        !.blocks = IF ti > 0
                     THEN [last.blocks EXCEPT ![ti].Text = last.blocks[ti].Text \o text]
                     ELSE Append(last.blocks,
                                 [ChatBlock EXCEPT !.Kind = BlockText, !.Text = text])]

\* the InteractiveChunkMsg of a text, as it is kept in the log of the turn
InteractiveChunkMsg(text) == [Line("InteractiveChunkMsg") EXCEPT !.content = text]

\* the texts SendPrompt sends on its channel: never empty
ChunkTexts == {<<"Hel">>, <<"lo">>}

\* KeyPressMsg "enter" with a non-empty input, interactive mode
InteractiveEnter ==
  /\ streamCh = "nil"
  /\ imode.iStreamCh = "nil"
  /\ imode.interactive
  /\ cmd = "none"
  /\ nInputs < MaxInputs
  /\ nInputs' = nInputs + 1
  /\ entries' = Append(entries, [chatEntry EXCEPT !.role = "user", !.text = <<"prompt">>])
  /\ cmd' = IF imode.iSession # 0 THEN "SendPrompt" ELSE "StartInteractive"
  /\ UNCHANGED <<streamCh, events, chVars, decVars, banner, stats, ptyVars, fnVars>>

\* StartInteractive succeeded: InteractiveStartMsg, which re-sends the prompt
InteractiveStart ==
  /\ cmd = "StartInteractive"
  /\ imode' = [imode EXCEPT !.iSession = 1]
  /\ cmd' = IF Len(entries) > 0 /\ lastEntry.role = "user" THEN "SendPrompt" ELSE "none"
  /\ UNCHANGED <<entries, streamCh, events, nInputs, chVars, decVars, banner, stats, isess, ipend, kbd, fnVars>>

\* InteractiveDoneMsg with Err
interactiveDoneErr(text) ==
  /\ imode' = [imode EXCEPT !.iStreamCh = "nil"]
  /\ entries' = IF hasStreamingEntry
                  THEN [entries EXCEPT ![Len(entries)] = errorEntry(text)]
                  ELSE Append(entries, errorEntry(text))
  /\ cmd' = "none"
  /\ UNCHANGED <<streamCh, events, nInputs, chVars, decVars, banner, stats, isess, ipend, kbd, fnVars>>

\* StartInteractive failed
InteractiveStartFails ==
  /\ cmd = "StartInteractive"
  /\ interactiveDoneErr(<<"spawn claude">>)

\* SendPrompt failed
SendPromptFails ==
  /\ cmd = "SendPrompt"
  /\ interactiveDoneErr(<<"send">>)

\* SendPrompt returned its channel: interactiveStreamStartMsg
InteractiveStreamStart ==
  /\ cmd = "SendPrompt"
  /\ imode' = [imode EXCEPT !.iStreamCh = "ch"]
  /\ entries' = Append(entries, [chatEntry EXCEPT !.role = "assistant", !.streaming = TRUE])
  /\ events' = <<>>
  /\ cmd' = "waitForInteractiveMsg"
  /\ UNCHANGED <<streamCh, nInputs, chVars, decVars, banner, stats, isess, ipend, kbd, fnVars>>

\* waitForInteractiveMsg received a text: InteractiveChunkMsg
InteractiveChunk(text) ==
  /\ cmd = "waitForInteractiveMsg"
  /\ nInputs < MaxInputs
  /\ nInputs' = nInputs + 1
  /\ events' = Append(events, InteractiveChunkMsg(text))
  /\ entries' = IF imode.iStreamCh # "nil" /\ hasStreamingEntry
                  THEN [entries EXCEPT ![Len(entries)] = interactiveChunk(lastEntry, text)]
                  ELSE entries
  /\ cmd' = IF imode.iStreamCh # "nil" THEN "waitForInteractiveMsg" ELSE "none"
  /\ UNCHANGED <<streamCh, chVars, decVars, banner, stats, ptyVars, fnVars>>

\* waitForInteractiveMsg found the channel closed: InteractiveDoneMsg{}
InteractiveDone ==
  /\ cmd = "waitForInteractiveMsg"
  /\ imode' = [imode EXCEPT !.iStreamCh = "nil"]
  /\ entries' = IF hasStreamingEntry
                  THEN [entries EXCEPT ![Len(entries)] =
                          [lastEntry EXCEPT !.streaming = FALSE,
                                            !.text = lastEntry.streamText]]
                  ELSE entries
  /\ events' = <<>>
  /\ cmd' = "none"
  /\ UNCHANGED <<streamCh, nInputs, chVars, decVars, banner, stats, isess, ipend, kbd, fnVars>>

\* the events that touch the accumulators and the Text blocks of a turn
AccumulatorMenu ==
  {DeltaLine("", TextDelta(<<"Hel">>)),
   DeltaLine("", TextDelta(<<"lo">>)),
   DeltaLine("task1", TextDelta(<<"sub">>)),
   DeltaLine("", ThinkingDelta(<<"hm">>)),
   DeltaLine("", InputJSONDelta(EmptyObject)),
   WrappedBlockStartLine([noContentBlock EXCEPT !.type = "text"]),
   WrappedBlockStartLine(ToolUseBlock("task1", "Task", EmptyObject))}

\* both modes of ChatModel, fed with fragments and block starts
NextAcc ==
  \/ Enter
  \/ StreamStart
  \/ \E ev \in AccumulatorMenu : StreamChunk(ev)
  \/ StreamDone
  \/ InteractiveEnter
  \/ InteractiveStart
  \/ InteractiveStartFails
  \/ SendPromptFails
  \/ InteractiveStreamStart
  \/ \E text \in ChunkTexts : InteractiveChunk(text)
  \/ InteractiveDone

SpecAcc == Init /\ [][NextAcc]_vars

(***************************************************************************)
(* InteractiveSession.SendPrompt, called from any number of goroutines.    *)
(* A call is at "lock" until it holds s.mu, at "send" before s.exp.Send,   *)
(* at "sendErr" when Send failed and the lock is still held, at "loop" in  *)
(* the read loop of its goroutine, at "close" and at "unlock" before the   *)
(* two deferred calls of the goroutine, and then "done" or "failed".       *)
(***************************************************************************)
MaxCalls == 3
MaxPtyOps == 4
PtyChanCap == 64

newCall == [pc |-> "lock", made |-> FALSE, ch |-> <<>>, closed |-> FALSE]

ptyOp(op, c) == [op |-> op, call |-> c]

\* s.exp.Send(prompt + "\n") succeeded, ch := make(chan string, 64), go func()
\* with the deferred unlock in SendPrompt itself: the lock is gone on return
sendPromptUnlocksOnReturn(s, c) ==
  [s EXCEPT !.pty = Append(s.pty, ptyOp("Send", c)),
            !.mu = 0,
            !.calls[c].made = TRUE,
            !.calls[c].pc = "loop"]

\* s.exp.Send(prompt + "\n") succeeded, ch := make(chan string, 64), go func()
sendPrompt(s, c) ==
  [s EXCEPT !.pty = Append(s.pty, ptyOp("Send", c)),
            !.calls[c].made = TRUE,
            !.calls[c].pc = "loop"]

\* one round of the read loop: s.exp.Read, and what the round does with what
\* it read.  "text": output that does not end in the prompt; "prompt": output
\* that makes promptRe match; "ansi": escape sequences only; "err": an error
\* and no bytes
readRound(s, c, kind) ==
  LET read == [s EXCEPT !.pty = Append(s.pty, ptyOp("Read", c))]
  IN CASE kind = "text" -> [read EXCEPT !.calls[c].ch = Append(@, <<"Hel">>)]
       [] kind = "prompt" -> [read EXCEPT !.calls[c].ch = Append(@, <<">">>),
                                          !.calls[c].pc = "close"]
       [] kind = "ansi" -> read
       [] OTHER -> [read EXCEPT !.calls[c].pc = "close"]

ReadKinds == {"text", "prompt", "ansi", "err"}

Calls == 1..Len(isess.calls)

\* a goroutine calls SendPrompt
CallSendPrompt ==
  /\ Len(isess.calls) < MaxCalls
  /\ isess' = [isess EXCEPT !.calls = Append(@, newCall)]
  /\ UNCHANGED <<entries, streamCh, nInputs, turnVars, chVars, decVars, banner, stats, imode, ipend, kbd, fnVars>>

\* s.mu.Lock()
Lock(c) ==
  /\ isess.calls[c].pc = "lock"
  /\ isess.mu = 0
  /\ isess' = [isess EXCEPT !.mu = c, !.calls[c].pc = "send"]
  /\ UNCHANGED <<entries, streamCh, nInputs, turnVars, chVars, decVars, banner, stats, imode, ipend, kbd, fnVars>>

\* s.exp.Send succeeds and SendPrompt returns the channel
Send(c) ==
  /\ isess.calls[c].pc = "send"
  /\ Len(isess.pty) < MaxPtyOps
  /\ isess' = sendPrompt(isess, c)
  /\ UNCHANGED <<entries, streamCh, nInputs, turnVars, chVars, decVars, banner, stats, imode, ipend, kbd, fnVars>>

\* s.exp.Send returns an error
SendFails(c) ==
  /\ isess.calls[c].pc = "send"
  /\ isess' = [isess EXCEPT !.calls[c].pc = "sendErr"]
  /\ UNCHANGED <<entries, streamCh, nInputs, turnVars, chVars, decVars, banner, stats, imode, ipend, kbd, fnVars>>

\* s.mu.Unlock(); return nil, err
UnlockAfterSendError(c) ==
  /\ isess.calls[c].pc = "sendErr"
  /\ isess' = [isess EXCEPT !.mu = 0, !.calls[c].pc = "failed"]
  /\ UNCHANGED <<entries, streamCh, nInputs, turnVars, chVars, decVars, banner, stats, imode, ipend, kbd, fnVars>>

\* one round of the loop of the goroutine; ch <- clean waits for room
ReadRound(c, kind) ==
  /\ isess.calls[c].pc = "loop"
  /\ Len(isess.pty) < MaxPtyOps
  /\ kind \in {"text", "prompt"} => Len(isess.calls[c].ch) < PtyChanCap
  /\ isess' = readRound(isess, c, kind)
  /\ UNCHANGED <<entries, streamCh, nInputs, turnVars, chVars, decVars, banner, stats, imode, ipend, kbd, fnVars>>

\* the idle deadline passes: the loop ends
IdleDeadline(c) ==
  /\ isess.calls[c].pc = "loop"
  /\ isess' = [isess EXCEPT !.calls[c].pc = "close"]
  /\ UNCHANGED <<entries, streamCh, nInputs, turnVars, chVars, decVars, banner, stats, imode, ipend, kbd, fnVars>>

\* defer close(ch)
CloseChunks(c) ==
  /\ isess.calls[c].pc = "close"
  /\ isess' = [isess EXCEPT !.calls[c].closed = TRUE, !.calls[c].pc = "unlock"]
  /\ UNCHANGED <<entries, streamCh, nInputs, turnVars, chVars, decVars, banner, stats, imode, ipend, kbd, fnVars>>

\* defer s.mu.Unlock()
Unlock(c) ==
  /\ isess.calls[c].pc = "unlock"
  /\ isess' = [isess EXCEPT !.mu = 0, !.calls[c].pc = "done"]
  /\ UNCHANGED <<entries, streamCh, nInputs, turnVars, chVars, decVars, banner, stats, imode, ipend, kbd, fnVars>>

\* the caller takes a text from the channel it was given
ReceiveChunk(c) ==
  /\ isess.calls[c].made
  /\ isess.calls[c].ch # <<>>
  /\ isess' = [isess EXCEPT !.calls[c].ch = Tail(@)]
  /\ UNCHANGED <<entries, streamCh, nInputs, turnVars, chVars, decVars, banner, stats, imode, ipend, kbd, fnVars>>

NextPty ==
  \/ CallSendPrompt
  \/ \E c \in Calls : Lock(c)
  \/ \E c \in Calls : Send(c)
  \/ \E c \in Calls : SendFails(c)
  \/ \E c \in Calls : UnlockAfterSendError(c)
  \/ \E c \in Calls, kind \in ReadKinds : ReadRound(c, kind)
  \/ \E c \in Calls : IdleDeadline(c)
  \/ \E c \in Calls : CloseChunks(c)
  \/ \E c \in Calls : Unlock(c)
  \/ \E c \in Calls : ReceiveChunk(c)

SpecPty == Init /\ [][NextPty]_vars

(***************************************************************************)
(* The turn-level handlers fed with tool blocks and fragments of their     *)
(* input: complete and partial objects, an object with a member of the     *)
(* wrong type, white space in front, between and behind.                   *)
(***************************************************************************)
SpacedTaskInput ==
  <<" ", "{", "\"description\"", ":", " ", "\"find\"", ",", "\n",
    "\"subagent_type\"", ":", "\"ls\"", "}", " ">>
MistypedTaskInput ==
  <<"{", "\"description\"", ":", "{", "}", ",", "\"prompt\"", ":", "\"ls\"", "}">>
NestedInput ==
  <<"{", "\"command\"", ":", "{", "\"prompt\"", ":", "\"ls\"", "}", "}">>

ToolInputs ==
  {TaskInputHead, TaskInputTail, TaskInputHead \o TaskInputTail, EmptyObject,
   SpacedTaskInput, MistypedTaskInput, NestedInput, <<"\"find\"">>}

FinalizeMenu ==
  {WrappedBlockStartLine(ToolUseBlock("task1", "Task", EmptyObject)),
   WrappedBlockStartLine(ToolUseBlock("t1", "Bash", EmptyObject))}
    \cup {DeltaLine("", InputJSONDelta(json)) : json \in ToolInputs}

NextFin ==
  \/ Enter
  \/ StreamStart
  \/ \E ev \in FinalizeMenu : StreamChunk(ev)
  \/ StreamDone

SpecFin == Init /\ [][NextFin]_vars

(***************************************************************************)
(* The event lists given to ExtractBlocks: the log of a turn fed with      *)
(* assistant events of several items (an empty text among them), user      *)
(* events with and without the error flag, block starts and a fragment.    *)
(***************************************************************************)
ExtractMenu ==
  {MessageLine("assistant", "",
     <<TextItem(<<>>), TextItem(<<"Hel">>), ToolUseItem("t1", "Bash", CommandInput)>>),
   MessageLine("assistant", "",
     <<ToolUseItem("task1", "Task", TaskInputHead \o TaskInputTail), TextItem(<<"lo">>)>>),
   MessageLine("assistant", "task1", <<ToolUseItem("sub1", "Read", CommandInput)>>),
   MessageLine("user", "",
     <<ToolResultItem("t1", StringContent(<<"denied">>), TRUE),
       ToolResultItem("task1", AgentResult, FALSE)>>),
   MessageLine("user", "task1", <<ToolResultItem("sub1", StringContent(<<"ok">>), TRUE)>>),
   BlockStartLine(ToolUseBlock("t2", "Grep", EmptyObject)),
   BlockStartLine([noContentBlock EXCEPT !.type = "text"]),
   DeltaLine("", TextDelta(<<"Hel">>))}

NextExt ==
  \/ Enter
  \/ StreamStart
  \/ \E ev \in ExtractMenu : StreamChunk(ev)
  \/ StreamDone

SpecExt == Init /\ [][NextExt]_vars

(***************************************************************************)
(* The turn-level handlers fed with streams that end with results of       *)
(* several session ids, costs and token counts, or with an error.          *)
(***************************************************************************)
ResultOf(sessionID, cost, inputTok, outputTok) ==
  [ClaudeResult EXCEPT !.Type = "result", !.SessionID = sessionID, !.CostUSD = cost,
                       !.InputTokens = inputTok, !.OutputTokens = outputTok]

ResultMenu == {ResultOf("s1", 2, 3, 5), ResultOf("s2", 1, 1, 1), ResultOf("", 1, 0, 2)}

NextStat ==
  \/ Enter
  \/ StreamStart
  \/ StreamStartFails
  \/ StreamChunk(DeltaLine("", TextDelta(<<"Hel">>)))
  \/ \E result \in ResultMenu : StreamDoneWith(result)
  \/ StreamFails

SpecStat == Init /\ [][NextStat]_vars

(***************************************************************************)
(* The lines of the subprocess's stdout and the line decoder.  A line is   *)
(* the token sequence of its text; the events decoded from it keep it as   *)
(* Raw, and every reader of an event decodes Raw again.                    *)
(***************************************************************************)
\* positions of the member names at nesting depth d of a white-space free text
keysAt(t, d) ==
  {i \in 1..Len(t) : /\ isLiteral(t[i])
                     /\ i + 2 <= Len(t)
                     /\ t[i + 1] = ":"
                     /\ depthBefore(t, i) = d}

\* the string value of member f at depth d, "" when absent or not a string;
\* of a repeated member the last one counts
strAt(t, d, f) ==
  LET S == {i \in keysAt(t, d) : literalValue(t[i]) = f /\ isLiteral(t[i + 2])}
  IN IF S = {} THEN "" ELSE literalValue(t[(CHOOSE i \in S : \A j \in S : j <= i) + 2])

\* json.Unmarshal of a line into StreamEvent: [ok, Type, Subtype].  A text that
\* is not valid JSON, a top-level value that is not an object and a type or
\* subtype that is not a string are errors.
unmarshalStreamEvent(line) ==
  LET t == nonSpace(line)
      typeError == \E i \in keysAt(t, 1) :
                      literalValue(t[i]) \in {"type", "subtype"} /\ ~isLiteral(t[i + 2])
  IN [ok |-> validJSON(line) /\ Len(t) > 0 /\ t[1] = "{" /\ ~typeError,
      Type |-> strAt(t, 1, "type"),
      Subtype |-> strAt(t, 1, "subtype")]

\* json.Unmarshal of a result line into ClaudeResult: [ok, Type].  The string
\* members must be strings; usage must be an object; the number and bool
\* members can be neither a string nor an object.  The members in front of and
\* behind a mismatched one are still decoded.
unmarshalResult(line) ==
  LET t == nonSpace(line)
      strings == {"type", "subtype", "result", "session_id"}
      others == {"is_error", "duration_ms", "duration_api_ms", "num_turns", "total_cost_usd"}
      typeError ==
        \E i \in keysAt(t, 1) :
           \/ literalValue(t[i]) \in strings /\ ~isLiteral(t[i + 2])
           \/ literalValue(t[i]) = "usage" /\ isLiteral(t[i + 2])
           \/ literalValue(t[i]) \in others
  IN [ok |-> ~typeError, Type |-> strAt(t, 1, "type")]

\* json.Unmarshal of an assistant line into struct{Message struct{Model,
\* StopReason string}}: [ok, Model, StopReason].  A message that is a string
\* and a model or stop_reason that is not a string are errors; the members in
\* front of and behind a mismatched one are still decoded.  The members of
\* depth two are taken as the members of message.
unmarshalMessage(line) ==
  LET t == nonSpace(line)
      typeError ==
        \/ \E i \in keysAt(t, 1) : literalValue(t[i]) = "message" /\ isLiteral(t[i + 2])
        \/ \E i \in keysAt(t, 2) :
              literalValue(t[i]) \in {"model", "stop_reason"} /\ ~isLiteral(t[i + 2])
  IN [ok |-> ~typeError,
      Model |-> strAt(t, 2, "model"),
      StopReason |-> strAt(t, 2, "stop_reason")]

\* a decoder that gives up on a result line whose body has the wrong shape
parseEventLineDropBadResult(line, result, model, stopReason) ==
  LET u == unmarshalStreamEvent(line)
      r == unmarshalResult(line)
  IN IF ~u.ok \/ (u.Type = "result" /\ ~r.ok)
       THEN [ev |-> noEvent, isNil |-> TRUE, resultErr |-> FALSE, result |-> result,
             model |-> model, stopReason |-> stopReason]
       ELSE [ev |-> [Type |-> u.Type, Subtype |-> u.Subtype, Raw |-> line],
             isNil |-> FALSE, resultErr |-> FALSE,
             result |-> IF u.Type = "result" THEN [Type |-> r.Type] ELSE result,
             model |-> model, stopReason |-> stopReason]

\* a decoder that records the model and the stop reason of every assistant
\* line, empty ones included
parseEventLineOverwrite(line, result, model, stopReason) ==
  LET u == unmarshalStreamEvent(line)
      r == unmarshalResult(line)
      msg == unmarshalMessage(line)
      rec == u.Type = "assistant" /\ msg.ok
  IN IF ~u.ok
       THEN [ev |-> noEvent, isNil |-> TRUE, resultErr |-> FALSE, result |-> result,
             model |-> model, stopReason |-> stopReason]
       ELSE [ev |-> [Type |-> u.Type, Subtype |-> u.Subtype, Raw |-> line],
             isNil |-> FALSE,
             resultErr |-> (u.Type = "result" /\ ~r.ok),
             result |-> IF u.Type = "result" THEN [Type |-> r.Type] ELSE result,
             model |-> IF rec THEN msg.Model ELSE model,
             stopReason |-> IF rec THEN msg.StopReason ELSE stopReason]

\* parseEventLine parses one NDJSON line, updating result/model/stopReason as
\* needed: the event (isNil when the line is not valid JSON), the result
\* unmarshal error, and the updated result, model and stopReason
parseEventLine(line, result, model, stopReason) ==
  LET u == unmarshalStreamEvent(line)
      r == unmarshalResult(line)
      msg == unmarshalMessage(line)
      rec == u.Type = "assistant" /\ msg.ok
  IN IF ~u.ok
       THEN [ev |-> noEvent, isNil |-> TRUE, resultErr |-> FALSE, result |-> result,
             model |-> model, stopReason |-> stopReason]
       ELSE [ev |-> [Type |-> u.Type, Subtype |-> u.Subtype, Raw |-> line],
             isNil |-> FALSE,
             resultErr |-> (u.Type = "result" /\ ~r.ok),
             result |-> IF u.Type = "result" THEN [Type |-> r.Type] ELSE result,
             model |-> IF rec /\ msg.Model # "" THEN msg.Model ELSE model,
             stopReason |-> IF rec /\ msg.StopReason # "" THEN msg.StopReason
                            ELSE stopReason]

\* the tokens of the Go string a literal decodes to: a fragment of tool
\* input JSON is the token sequence of its text, any other string one token
unquote(c) ==
  IF c = "\"{\\\"command\\\":\"" THEN <<"{", "\"command\"", ":">>
  ELSE IF literalValue(c) = "" THEN <<>>
  ELSE <<literalValue(c)>>

\* the tokens of string member f at depth d, <<>> when absent or not a string
tokensAt(t, d, f) ==
  LET S == {i \in keysAt(t, d) : literalValue(t[i]) = f /\ isLiteral(t[i + 2])}
  IN IF S = {} THEN <<>> ELSE unquote(t[(CHOOSE i \in S : \A j \in S : j <= i) + 2])

\* the fields of Raw that extractDeltas, extractParentToolUseID and
\* parseStreamBlock decode, for the members that the lines of StdoutLines and
\* DecoderLines hold
rawEvent(raw) ==
  LET t == nonSpace(raw)
      type == strAt(t, 1, "type")
  IN [Line(type) EXCEPT
        !.parent_tool_use_id = strAt(t, 1, "parent_tool_use_id"),
        !.event = IF ~(\E i \in keysAt(t, 1) : literalValue(t[i]) = "event")
                    THEN noInner
                    ELSE [noInner EXCEPT
                            !.type = strAt(t, 2, "type"),
                            !.delta = [noDelta EXCEPT
                                         !.type = strAt(t, 3, "type"),
                                         !.text = tokensAt(t, 3, "text"),
                                         !.thinking = tokensAt(t, 3, "thinking"),
                                         !.partial_json = tokensAt(t, 3, "partial_json")]]]

\* json.Unmarshal of raw into the wrapper struct of extractDeltas returned nil:
\* raw is a JSON object, event and delta are no strings, and the string
\* members of event and delta are strings
unmarshalWrapperOK(raw) ==
  LET t == nonSpace(raw)
  IN /\ validJSON(raw) /\ Len(t) > 0 /\ t[1] = "{"
     /\ ~\E i \in keysAt(t, 1) : literalValue(t[i]) = "event" /\ isLiteral(t[i + 2])
     /\ ~\E i \in keysAt(t, 2) :
           \/ literalValue(t[i]) = "type" /\ ~isLiteral(t[i + 2])
           \/ literalValue(t[i]) = "delta" /\ isLiteral(t[i + 2])
     /\ ~\E i \in keysAt(t, 3) :
           /\ literalValue(t[i]) \in {"type", "text", "thinking", "partial_json"}
           /\ ~isLiteral(t[i + 2])

\* extractDeltas(raw string): json.Unmarshal, then the switch on the delta type
extractDeltasRaw(raw) ==
  IF unmarshalWrapperOK(raw) THEN extractDeltas(rawEvent(raw)) ELSE noDeltas

\* ``
EmptyLine == <<>>
\* `not json at all`
GarbageLine == <<"not", " ", "json">>
\* {"type":"stream_event","event":{"type":"content_block_delta",
\*  "delta":{"type":"text_delta","text":...}}}
RawTextDelta(lit) ==
  <<"{", "\"type\"", ":", "\"stream_event\"", ",", "\"event\"", ":",
    "{", "\"type\"", ":", "\"content_block_delta\"", ",", "\"delta\"", ":",
    "{", "\"type\"", ":", "\"text_delta\"", ",", "\"text\"", ":", lit, "}", "}", "}">>
\* {"type":"result","usage":"bad"}
BadResultLine == <<"{", "\"type\"", ":", "\"result\"", ",", "\"usage\"", ":", "\"bad\"", "}">>

StdoutLines == {EmptyLine, GarbageLine, RawTextDelta("\"Hel\""), BadResultLine}

(***************************************************************************)
(* The decoder on its own: parseEventLine called line after line with the  *)
(* accumulators of its caller, and extractDeltas called on the same line.  *)
(***************************************************************************)
\* {"type":"assistant","message":{...}}
RawAssistant(members) ==
  <<"{", "\"type\"", ":", "\"assistant\"", ",", "\"message\"", ":", "{">>
    \o members \o <<"}", "}">>

\* {"type":"stream_event","event":{"type":...,"delta":{"type":...,...}}}
RawDelta(eventType, deltaType, members) ==
  <<"{", "\"type\"", ":", "\"stream_event\"", ",", "\"event\"", ":",
    "{", "\"type\"", ":", eventType, ",", "\"delta\"", ":",
    "{", "\"type\"", ":", deltaType>> \o members \o <<"}", "}", "}">>

\* assistant lines: model and stop reason, a model only, both empty, neither,
\* a stop reason only, and a model that is an object in front of a stop reason
ModelAndStop ==
  RawAssistant(<<"\"model\"", ":", "\"m1\"", ",", "\"stop_reason\"", ":", "\"end_turn\"">>)
ModelOnly == RawAssistant(<<"\"model\"", ":", "\"m2\"">>)
EmptyModelAndStop ==
  RawAssistant(<<"\"model\"", ":", "\"\"", ",", "\"stop_reason\"", ":", "\"\"">>)
NoModelNoStop == RawAssistant(<<>>)
StopOnly == RawAssistant(<<"\"stop_reason\"", ":", "\"tool_use\"">>)
ObjectModelAndStop ==
  RawAssistant(<<"\"model\"", ":", "{", "}", ",", "\"stop_reason\"", ":", "\"end_turn\"">>)

RawAssistantLines ==
  {ModelAndStop, ModelOnly, EmptyModelAndStop, NoModelNoStop, StopOnly, ObjectModelAndStop}

\* delta lines: the three fragment types, a delta of another type, a delta in
\* an event that is no content_block_delta, a text delta that also has a
\* thinking member, and a text delta whose thinking member is an object
RawThinkingDelta ==
  RawDelta("\"content_block_delta\"", "\"thinking_delta\"",
           <<",", "\"thinking\"", ":", "\"hm\"">>)
RawInputJSONDelta ==
  RawDelta("\"content_block_delta\"", "\"input_json_delta\"",
           <<",", "\"partial_json\"", ":", "\"{\\\"command\\\":\"">>)
RawSignatureDelta ==
  RawDelta("\"content_block_delta\"", "\"signature_delta\"",
           <<",", "\"text\"", ":", "\"Hel\"">>)
RawDeltaInBlockStart ==
  RawDelta("\"content_block_start\"", "\"text_delta\"", <<",", "\"text\"", ":", "\"Hel\"">>)
RawTextAndThinking ==
  RawDelta("\"content_block_delta\"", "\"text_delta\"",
           <<",", "\"text\"", ":", "\"Hel\"", ",", "\"thinking\"", ":", "\"hm\"">>)
RawTextObjectThinking ==
  RawDelta("\"content_block_delta\"", "\"text_delta\"",
           <<",", "\"text\"", ":", "\"Hel\"", ",", "\"thinking\"", ":", "{", "}">>)

RawDeltaLines ==
  {RawTextDelta("\"Hel\""), RawThinkingDelta, RawInputJSONDelta, RawSignatureDelta,
   RawDeltaInBlockStart, RawTextAndThinking, RawTextObjectThinking}

DecoderLines == StdoutLines \cup RawAssistantLines \cup RawDeltaLines

\* the decoder after one more line
decoded(d, line) ==
  LET r == parseEventLine(line, d.result, d.model, d.stopReason)
  IN [lines |-> Append(d.lines, line), result |-> r.result, model |-> r.model,
      stopReason |-> r.stopReason, ev |-> r.ev, isNil |-> r.isNil,
      resultErr |-> r.resultErr, deltas |-> extractDeltasRaw(line)]

DecodeLine(line) ==
  /\ Len(dec.lines) < MaxDecLines
  /\ dec' = decoded(dec, line)
  /\ UNCHANGED <<entries, streamCh, nInputs, turnVars, chVars, banner, stats, ptyVars, fnVars>>

NextDec == \E line \in DecoderLines : DecodeLine(line)

SpecDec == Init /\ [][NextDec]_vars

(***************************************************************************)
(* The channel-level state machine: key presses, the StreamClaude          *)
(* goroutines writing to their channels, the waitForStreamMsg commands     *)
(* reading them, and Update handling the messages the commands return, in  *)
(* every interleaving.  streamCh is "nil" or the name of a channel, which  *)
(* is the decimal of its index in procs.                                   *)
(***************************************************************************)
\* ch := make(chan StreamMsg, 64)
ChanCap == 64

noResponse ==
  [present |-> FALSE, Events |-> <<>>, Result |-> [Type |-> ""],
   Model |-> "", StopReason |-> ""]

\* StreamMsg
StreamMsg == [Done |-> FALSE, Event |-> noEvent, Err |-> <<>>, Response |-> noResponse]

\* ClaudeStreamStartMsg, ClaudeStreamChunkMsg and ClaudeStreamDoneMsg; from is
\* the channel the command that returned the message had read
teaMsg(kind, from) ==
  [msg |-> kind, from |-> from, Ch |-> 0, Event |-> noEvent,
   deltas |-> [Text |-> <<>>, Thinking |-> <<>>, InputJSON |-> <<>>],
   Err |-> <<>>, Response |-> noResponse]

\* the goroutine of StreamClaude and its channel: lines are the stdout lines
\* scanned so far, sent the messages written to the channel so far, the
\* first nread of which have been received; readers counts the pending
\* waitForStreamMsg commands and closedReads the receives that found the
\* channel closed
newProc ==
  [pc |-> "scan", lines |-> <<>>, events |-> <<>>, result |-> [Type |-> ""],
   model |-> "", stopReason |-> "",
   sent |-> <<>>, nread |-> 0, readers |-> 0, closedReads |-> 0]

chanName(c) == ToString(c)
chanOf(ref) == CHOOSE c \in 1..Len(procs) : chanName(c) = ref

buffered(p) == Len(p.sent) - p.nread

addMsg(m) == msgs (+) SetToBag({m})
dropMsg(m) == msgs (-) SetToBag({m})

\* KeyPressMsg "enter" with a non-empty input, print mode: the prompt is
\* appended and Update returns the command that calls StreamClaude
\* Enter key presses so far: no handler removes the entry of a prompt
prompts == Cardinality({e \in 1..Len(entries) : entries[e].role = "user"})

\* stdout lines scanned so far by the first c goroutines
RECURSIVE linesRead(_)
linesRead(c) == IF c = 0 THEN 0 ELSE Len(procs[c].lines) + linesRead(c - 1)

\* inputs taken so far at the channel level
chInputs == prompts + (prompts - starting) + linesRead(Len(procs))

KeyEnter ==
  /\ streamCh = "nil"
  /\ imode.iStreamCh = "nil"
  /\ ~imode.interactive
  /\ chInputs < MaxChInputs
  /\ entries' = Append(entries, [chatEntry EXCEPT !.role = "user", !.text = <<"prompt">>])
  /\ starting' = starting + 1
  /\ UNCHANGED <<streamCh, nInputs, procs, msgs, turnVars, decVars, banner, stats, ptyVars, fnVars>>

\* the command runs StreamClaude, which starts the subprocess and the goroutine
\* and returns the channel: ClaudeStreamStartMsg
RunStreamClaude ==
  /\ starting > 0
  /\ chInputs < MaxChInputs
  /\ starting' = starting - 1
  /\ procs' = Append(procs, newProc)
  /\ msgs' = addMsg([teaMsg("ClaudeStreamStartMsg", 0) EXCEPT !.Ch = Len(procs) + 1])
  /\ UNCHANGED <<entries, streamCh, nInputs, turnVars, decVars, banner, stats, ptyVars, fnVars>>

\* StreamClaude returns an error: ClaudeStreamDoneMsg{Err}
RunStreamClaudeFails ==
  /\ starting > 0
  /\ chInputs < MaxChInputs
  /\ starting' = starting - 1
  /\ msgs' = addMsg([teaMsg("ClaudeStreamDoneMsg", 0) EXCEPT !.Err = <<"start claude">>])
  /\ UNCHANGED <<entries, streamCh, nInputs, procs, turnVars, decVars, banner, stats, ptyVars, fnVars>>

\* a scan loop that stops at the first line that yields no event
scanMsgsStopAtNil(p, line) ==
  LET r == parseEventLine(line, p.result, p.model, p.stopReason)
  IN IF line = <<>> \/ r.isNil
       THEN [p EXCEPT !.lines = Append(@, line), !.pc = "done",
                      !.sent = Append(@, [StreamMsg EXCEPT !.Done = TRUE,
                                                          !.Err = <<"claude: bad line">>])]
       ELSE [p EXCEPT !.lines = Append(@, line),
                      !.result = r.result,
                      !.model = r.model,
                      !.stopReason = r.stopReason,
                      !.events = Append(@, r.ev),
                      !.sent = Append(@, [StreamMsg EXCEPT !.Event = r.ev])]

\* one turn of the scan loop of the goroutine: an empty line and a line without
\* an event are skipped, the event of any other line is appended to events
\* and sent
scanMsgs(p, line) ==
  LET r == parseEventLine(line, p.result, p.model, p.stopReason)
  IN IF line = <<>> THEN [p EXCEPT !.lines = Append(@, line)]
     ELSE IF r.isNil THEN [p EXCEPT !.lines = Append(@, line)]
     ELSE [p EXCEPT !.lines = Append(@, line),
                    !.result = r.result,
                    !.model = r.model,
                    !.stopReason = r.stopReason,
                    !.events = Append(@, r.ev),
                    !.sent = Append(@, [StreamMsg EXCEPT !.Event = r.ev])]

ScanLine(c, line) ==
  /\ procs[c].pc = "scan"
  /\ chInputs < MaxChInputs
  /\ buffered(procs[c]) < ChanCap
  /\ procs' = [procs EXCEPT ![c] = scanMsgs(procs[c], line)]
  /\ UNCHANGED <<entries, streamCh, nInputs, starting, msgs, turnVars, decVars, banner, stats, ptyVars, fnVars>>

\* a goroutine that sends the response together with the error
doneMsgBoth(p, waitErr) ==
  [StreamMsg EXCEPT
     !.Done = TRUE,
     !.Err = IF waitErr THEN <<"claude: exit status 1">> ELSE <<>>,
     !.Response = [present |-> TRUE, Events |-> p.events, Result |-> p.result,
                   Model |-> p.model, StopReason |-> p.stopReason]]

\* the last message of the goroutine, after cmd.Wait()
doneMsg(p, waitErr) ==
  IF waitErr
    THEN [StreamMsg EXCEPT !.Done = TRUE, !.Err = <<"claude: exit status 1">>]
    ELSE [StreamMsg EXCEPT
            !.Done = TRUE,
            !.Response = [present |-> TRUE, Events |-> p.events, Result |-> p.result,
                   Model |-> p.model, StopReason |-> p.stopReason]]

\* stdout ends, the subprocess exits, the goroutine sends StreamMsg{Done}
ProcExit(c, waitErr) ==
  /\ procs[c].pc = "scan"
  /\ buffered(procs[c]) < ChanCap
  /\ procs' = [procs EXCEPT ![c].pc = "done",
                            ![c].sent = Append(@, doneMsg(procs[c], waitErr))]
  /\ UNCHANGED <<entries, streamCh, nInputs, starting, msgs, turnVars, decVars, banner, stats, ptyVars, fnVars>>

\* defer close(ch)
CloseChan(c) ==
  /\ procs[c].pc = "done"
  /\ procs' = [procs EXCEPT ![c].pc = "closed"]
  /\ UNCHANGED <<entries, streamCh, nInputs, starting, msgs, turnVars, decVars, banner, stats, ptyVars, fnVars>>

\* the tea.Msg a waitForStreamMsg command returns for a received StreamMsg
streamTeaMsg(c, m) ==
  IF m.Done
    THEN [teaMsg("ClaudeStreamDoneMsg", c) EXCEPT !.Response = m.Response, !.Err = m.Err]
    ELSE [teaMsg("ClaudeStreamChunkMsg", c) EXCEPT
            !.Event = m.Event, !.deltas = extractDeltasRaw(m.Event.Raw)]

closedTeaMsg(c) ==
  [teaMsg("ClaudeStreamDoneMsg", c) EXCEPT !.Err = <<"stream channel closed unexpectedly">>]

\* a pending waitForStreamMsg command receives from its channel and returns
Receive(c) ==
  /\ procs[c].readers > 0
  /\ \/ /\ buffered(procs[c]) > 0
        /\ procs' = [procs EXCEPT ![c].readers = @ - 1, ![c].nread = @ + 1]
        /\ msgs' = addMsg(streamTeaMsg(c, procs[c].sent[procs[c].nread + 1]))
     \/ /\ buffered(procs[c]) = 0
        /\ procs[c].pc = "closed"
        /\ procs' = [procs EXCEPT ![c].readers = @ - 1, ![c].closedReads = @ + 1]
        /\ msgs' = addMsg(closedTeaMsg(c))
  /\ UNCHANGED <<entries, streamCh, nInputs, starting, turnVars, decVars, banner, stats, ptyVars, fnVars>>

\* Update, case ClaudeStreamStartMsg
UpdateStart(m) ==
  /\ BagIn(m, msgs)
  /\ m.msg = "ClaudeStreamStartMsg"
  /\ msgs' = dropMsg(m)
  /\ streamCh' = chanName(m.Ch)
  /\ entries' = Append(entries, [chatEntry EXCEPT !.role = "assistant", !.streaming = TRUE])
  /\ procs' = [procs EXCEPT ![m.Ch].readers = @ + 1]
  /\ UNCHANGED <<nInputs, starting, turnVars, decVars, banner, stats, ptyVars, fnVars>>

\* a chunk handler that writes to the last entry whether it is streaming or not
chunkAppliedAlways(es, ref, m) ==
  IF Len(es) > 0
    THEN [es EXCEPT ![Len(es)] =
            [@ EXCEPT
               !.blocks = applyDeltas(parseStreamBlock(@, rawEvent(m.Event.Raw)),
                                      m.deltas),
               !.streamThinking = @ \o m.deltas.Thinking,
               !.streamText = @ \o m.deltas.Text]]
    ELSE es

\* the entries after the chunk handler, ref being m.streamCh: unchanged when
\* streamCh is nil, else the block of `if len(m.entries) > 0`
chunkApplied(es, ref, m) ==
  IF ref # "nil" /\ Len(es) > 0 /\ es[Len(es)].streaming
    THEN [es EXCEPT ![Len(es)] =
            [@ EXCEPT
               !.blocks = applyDeltas(parseStreamBlock(@, rawEvent(m.Event.Raw)),
                                      m.deltas),
               !.streamThinking = @ \o m.deltas.Thinking,
               !.streamText = @ \o m.deltas.Text]]
    ELSE es

\* Update, case ClaudeStreamChunkMsg: nothing when streamCh is nil; else the
\* chunk is applied and a waitForStreamMsg on the current streamCh is returned
UpdateChunk(m) ==
  /\ BagIn(m, msgs)
  /\ m.msg = "ClaudeStreamChunkMsg"
  /\ msgs' = dropMsg(m)
  /\ entries' = chunkApplied(entries, streamCh, m)
  /\ procs' = IF streamCh = "nil"
                THEN procs
                ELSE [procs EXCEPT ![chanOf(streamCh)].readers = @ + 1]
  /\ UNCHANGED <<streamCh, nInputs, starting, turnVars, decVars, banner, stats, ptyVars, fnVars>>

\* the entries after the handler of ClaudeStreamDoneMsg
doneApplied(es, m) ==
  LET streamingLast == Len(es) > 0 /\ es[Len(es)].streaming
  IN IF m.Err # <<>>
       THEN IF streamingLast
              THEN [es EXCEPT ![Len(es)] = errorEntry(m.Err)]
              ELSE Append(es, errorEntry(m.Err))
     ELSE IF m.Response.present /\ streamingLast
       THEN [es EXCEPT ![Len(es)] = finalizeEntry(es[Len(es)])]
     ELSE es

\* Update, case ClaudeStreamDoneMsg
UpdateDone(m) ==
  /\ BagIn(m, msgs)
  /\ m.msg = "ClaudeStreamDoneMsg"
  /\ msgs' = dropMsg(m)
  /\ streamCh' = "nil"
  /\ entries' = doneApplied(entries, m)
  \* no line of StdoutLines has a session_id, a total_cost_usd or a usage object
  /\ stats' = IF m.Err = <<>> /\ m.Response.present
                THEN updateSessionStats(stats, [ClaudeResult EXCEPT !.Type = m.Response.Result.Type])
                ELSE stats
  /\ UNCHANGED <<nInputs, starting, procs, turnVars, decVars, banner, ptyVars, fnVars>>

NextCh ==
  \/ KeyEnter
  \/ RunStreamClaude
  \/ RunStreamClaudeFails
  \/ \E c \in 1..Len(procs), line \in StdoutLines : ScanLine(c, line)
  \/ \E c \in 1..Len(procs), waitErr \in BOOLEAN : ProcExit(c, waitErr)
  \/ \E c \in 1..Len(procs) : CloseChan(c)
  \/ \E c \in 1..Len(procs) : Receive(c)
  \/ \E m \in BagToSet(msgs) : UpdateStart(m)
  \/ \E m \in BagToSet(msgs) : UpdateChunk(m)
  \/ \E m \in BagToSet(msgs) : UpdateDone(m)

SpecCh == Init /\ [][NextCh]_vars

(***************************************************************************)
(* Interactive mode of ChatModel with the commands that Update returns run *)
(* concurrently, as the bubbletea runtime runs them: each in a goroutine   *)
(* of its own, its message handled by Update when it arrives.  A session   *)
(* is the number StartInteractive gave it; a chunk channel is the index in *)
(* ipend.chans of the SendPrompt call that made it, with the number of     *)
(* texts it buffers, whether its goroutine has closed it (and thereby      *)
(* released the lock of its session) and whether the goroutine holds a     *)
(* text it has read and not yet sent on the channel.                       *)
(***************************************************************************)
MaxPrompts == 2
MaxReads == 2
MaxReceives == 2

iCmd(kind, session, text, ch) ==
  [kind |-> kind, session |-> session, text |-> text, ch |-> ch]

iMsg(type, session, ch, err) ==
  [type |-> type, session |-> session, ch |-> ch, err |-> err]

newChan(session) ==
  [session |-> session, buffered |-> 0, closed |-> FALSE, pending |-> FALSE]

\* the text of the k-th prompt the user types
promptText(k) == <<"prompt", ToString(k)>>

\* s.mu of a session is held from Lock in SendPrompt until the deferred
\* Unlock of its goroutine, which runs right after the deferred close(ch)
locked(session) ==
  \E k \in 1..Len(ipend.chans) :
    ipend.chans[k].session = session /\ ~ipend.chans[k].closed

intFrame == UNCHANGED <<streamCh, turnVars, nInputs, chVars, decVars, banner, stats, isess, kbd, fnVars>>

withCmd(p, c) == [p EXCEPT !.cmds = @ (+) SetToBag({c})]
withoutCmd(p, c) == [p EXCEPT !.cmds = @ (-) SetToBag({c})]
withMsg(p, m) == [p EXCEPT !.msgs = @ (+) SetToBag({m})]
withoutMsg(p, m) == [p EXCEPT !.msgs = @ (-) SetToBag({m})]

\* the command of the enter handler in interactive mode, with the session
\* it captured when the key was pressed
enterCmd(session, text) ==
  iCmd(IF session = 0 THEN "StartInteractive" ELSE "SendPrompt", session, text, 0)

\* KeyPressMsg "enter" with a non-empty input, interactive mode
IKeyEnter ==
  /\ streamCh = "nil"
  /\ imode.iStreamCh = "nil"
  /\ imode.interactive
  /\ prompts < MaxPrompts
  /\ entries' = Append(entries, [chatEntry EXCEPT !.role = "user",
                                                  !.text = promptText(prompts + 1)])
  /\ ipend' = withCmd(ipend, enterCmd(imode.iSession, promptText(prompts + 1)))
  /\ UNCHANGED imode
  /\ intFrame

\* the command of the enter handler found session == nil and StartInteractive
\* spawned a session
RunStartInteractive(c) ==
  /\ c.kind = "StartInteractive"
  /\ ipend' = withMsg([withoutCmd(ipend, c) EXCEPT !.started = @ + 1],
                      iMsg("InteractiveStartMsg", ipend.started + 1, 0, <<>>))
  /\ UNCHANGED <<entries, imode>>
  /\ intFrame

\* StartInteractive returned an error
RunStartInteractiveFails(c) ==
  /\ c.kind = "StartInteractive"
  /\ ipend' = withMsg(withoutCmd(ipend, c),
                      iMsg("InteractiveDoneMsg", 0, 0, <<"spawn claude">>))
  /\ UNCHANGED <<entries, imode>>
  /\ intFrame

\* session.SendPrompt(text) took the lock, sent the text and returned the
\* channel of its goroutine
runSendPrompt(p, c) ==
  withMsg([withoutCmd(p, c) EXCEPT
             !.sent = Append(@, [session |-> c.session, text |-> c.text]),
             !.chans = Append(@, newChan(c.session))],
          iMsg("interactiveStreamStartMsg", c.session, Len(p.chans) + 1, <<>>))

RunSendPrompt(c) ==
  /\ c.kind = "SendPrompt"
  /\ ~locked(c.session)
  /\ ipend' = runSendPrompt(ipend, c)
  /\ UNCHANGED <<entries, imode>>
  /\ intFrame

\* session.SendPrompt(text) took the lock, s.exp.Send failed, the lock was
\* released and the error returned
RunSendPromptFails(c) ==
  /\ c.kind = "SendPrompt"
  /\ ~locked(c.session)
  /\ ipend' = withMsg(withoutCmd(ipend, c),
                      iMsg("InteractiveDoneMsg", 0, 0, <<"send">>))
  /\ UNCHANGED <<entries, imode>>
  /\ intFrame

\* the goroutine of SendPrompt read a text from the PTY that is not empty
\* after stripANSI and has no prompt in it
GoRead(k) ==
  /\ ~ipend.chans[k].closed
  /\ ~ipend.chans[k].pending
  /\ ipend.reads < MaxReads
  /\ ipend' = [ipend EXCEPT !.chans[k].pending = TRUE, !.reads = @ + 1]
  /\ UNCHANGED <<entries, imode>>
  /\ intFrame

\* ch <- clean
GoSend(k) ==
  /\ ipend.chans[k].pending
  /\ ipend.chans[k].buffered < PtyChanCap
  /\ ipend' = [ipend EXCEPT !.chans[k].pending = FALSE, !.chans[k].buffered = @ + 1]
  /\ UNCHANGED <<entries, imode>>
  /\ intFrame

\* a long response: the goroutine went round its loop until the buffer of
\* the channel was full, and read one more text
GoReadMany(k) ==
  /\ ~ipend.chans[k].closed
  /\ ~ipend.chans[k].pending
  /\ ipend.reads < MaxReads
  /\ ipend' = [ipend EXCEPT !.chans[k].pending = TRUE,
                            !.chans[k].buffered = PtyChanCap,
                            !.reads = @ + 1]
  /\ UNCHANGED <<entries, imode>>
  /\ intFrame

\* the goroutine returned (the prompt reappeared, a read failed or the idle
\* deadline passed): close(ch), then s.mu.Unlock()
GoReturn(k) ==
  /\ ~ipend.chans[k].closed
  /\ ~ipend.chans[k].pending
  /\ ipend' = [ipend EXCEPT !.chans[k].closed = TRUE]
  /\ UNCHANGED <<entries, imode>>
  /\ intFrame

\* waitForInteractiveMsg(ch): text, ok := <-ch
RunWait(c) ==
  /\ c.kind = "waitForInteractiveMsg"
  /\ \/ /\ ipend.chans[c.ch].buffered > 0
        /\ ipend.received < MaxReceives
        /\ ipend' = withMsg([withoutCmd(ipend, c) EXCEPT !.chans[c.ch].buffered = @ - 1,
                                                         !.received = @ + 1],
                            iMsg("InteractiveChunkMsg", 0, 0, <<>>))
     \/ /\ ipend.chans[c.ch].buffered = 0
        /\ ipend.chans[c.ch].closed
        /\ ipend' = withMsg(withoutCmd(ipend, c),
                            iMsg("InteractiveDoneMsg", 0, 0, <<>>))
  /\ UNCHANGED <<entries, imode>>
  /\ intFrame

\* case InteractiveStartMsg
UpdateInteractiveStart(m) ==
  /\ m.type = "InteractiveStartMsg"
  /\ imode' = [imode EXCEPT !.iSession = m.session]
  /\ ipend' = IF Len(entries) > 0 /\ lastEntry.role = "user"
                THEN withCmd(withoutMsg(ipend, m),
                             iCmd("SendPrompt", m.session, lastEntry.text, 0))
                ELSE withoutMsg(ipend, m)
  /\ UNCHANGED entries
  /\ intFrame

\* case interactiveStreamStartMsg
UpdateInteractiveStreamStart(m) ==
  /\ m.type = "interactiveStreamStartMsg"
  /\ imode' = [imode EXCEPT !.iStreamCh = chanName(m.ch)]
  /\ entries' = Append(entries, [chatEntry EXCEPT !.role = "assistant", !.streaming = TRUE])
  /\ ipend' = withCmd(withoutMsg(ipend, m), iCmd("waitForInteractiveMsg", 0, <<>>, m.ch))
  /\ intFrame

\* the channel that m.iStreamCh refers to
iChanOf(ref) == CHOOSE k \in 1..Len(ipend.chans) : chanName(k) = ref

\* case InteractiveChunkMsg
UpdateInteractiveChunk(m) ==
  /\ m.type = "InteractiveChunkMsg"
  /\ entries' = IF imode.iStreamCh # "nil" /\ hasStreamingEntry
                  THEN [entries EXCEPT ![Len(entries)] = interactiveChunk(lastEntry, <<"Hel">>)]
                  ELSE entries
  /\ ipend' = IF imode.iStreamCh # "nil"
                THEN withCmd(withoutMsg(ipend, m),
                             iCmd("waitForInteractiveMsg", 0, <<>>, iChanOf(imode.iStreamCh)))
                ELSE withoutMsg(ipend, m)
  /\ UNCHANGED imode
  /\ intFrame

\* case InteractiveDoneMsg
UpdateInteractiveDone(m) ==
  /\ m.type = "InteractiveDoneMsg"
  /\ imode' = [imode EXCEPT !.iStreamCh = "nil"]
  /\ entries' = IF m.err # <<>>
                  THEN IF hasStreamingEntry
                         THEN [entries EXCEPT ![Len(entries)] = errorEntry(m.err)]
                         ELSE Append(entries, errorEntry(m.err))
                  ELSE IF hasStreamingEntry
                         THEN [entries EXCEPT ![Len(entries)] =
                                 [lastEntry EXCEPT !.streaming = FALSE,
                                                   !.text = lastEntry.streamText]]
                         ELSE entries
  /\ ipend' = withoutMsg(ipend, m)
  /\ intFrame

NextInt ==
  \/ IKeyEnter
  \/ \E c \in BagToSet(ipend.cmds) : RunStartInteractive(c)
  \/ \E c \in BagToSet(ipend.cmds) : RunStartInteractiveFails(c)
  \/ \E c \in BagToSet(ipend.cmds) : RunSendPrompt(c)
  \/ \E c \in BagToSet(ipend.cmds) : RunSendPromptFails(c)
  \/ \E c \in BagToSet(ipend.cmds) : RunWait(c)
  \/ \E k \in 1..Len(ipend.chans) : GoRead(k)
  \/ \E k \in 1..Len(ipend.chans) : GoSend(k)
  \/ \E k \in 1..Len(ipend.chans) : GoReadMany(k)
  \/ \E k \in 1..Len(ipend.chans) : GoReturn(k)
  \/ \E m \in BagToSet(ipend.msgs) : UpdateInteractiveStart(m)
  \/ \E m \in BagToSet(ipend.msgs) : UpdateInteractiveStreamStart(m)
  \/ \E m \in BagToSet(ipend.msgs) : UpdateInteractiveChunk(m)
  \/ \E m \in BagToSet(ipend.msgs) : UpdateInteractiveDone(m)

SpecInt == Init /\ [][NextInt]_vars

(***************************************************************************)
(* The key handler of ChatModel.  A key is what msg.String() returns.  The *)
(* textarea and the viewport are bubbles components: a focused textarea    *)
(* appends the rune of a printable key to its value and ignores every key  *)
(* when blurred; the viewport is given keys to scroll with, of which the   *)
(* model keeps the list.                                                   *)
(***************************************************************************)
MaxKeys == 5

Keys == {"esc", "i", "enter", "shift+enter", "a", "down"}

\* the keys that insert their rune into a focused textarea
PrintableKeys == {"i", "a"}

isBlank(c) == c \in {" ", "\n"}

\* strings.TrimSpace
RECURSIVE trimLeft(_)
trimLeft(v) == IF v # <<>> /\ isBlank(Head(v)) THEN trimLeft(Tail(v)) ELSE v

RECURSIVE trimRight(_)
trimRight(v) ==
  IF v # <<>> /\ isBlank(v[Len(v)]) THEN trimRight(SubSeq(v, 1, Len(v) - 1)) ELSE v

TrimSpace(v) == trimRight(trimLeft(v))

\* m.textarea.Update(msg) of a key press
textareaUpdate(u, key) ==
  IF u.focused /\ key \in PrintableKeys THEN [u EXCEPT !.value = Append(@, key)] ELSE u

\* a key handler in which Enter in scroll mode goes on to the enter handler
keyPressEnterFallsThrough(u, key, idle) ==
  LET none == [ui |-> u, submit |-> <<>>] IN
  IF key = "esc"
    THEN [none EXCEPT !.ui = [u EXCEPT !.scrollMode = ~@, !.focused = u.scrollMode]]
  ELSE IF u.scrollMode /\ key = "i"
    THEN [none EXCEPT !.ui = [u EXCEPT !.scrollMode = FALSE, !.focused = TRUE]]
  ELSE IF u.scrollMode /\ key # "enter"
    THEN [none EXCEPT !.ui = [u EXCEPT !.viewport = Append(@, key)]]
  ELSE IF key = "shift+enter"
    THEN [none EXCEPT !.ui = [u EXCEPT !.value = Append(@, "\n")]]
  ELSE IF key = "enter"
    THEN IF TrimSpace(u.value) # <<>> /\ idle
           THEN [ui |-> [u EXCEPT !.value = <<>>], submit |-> TrimSpace(u.value)]
           ELSE none
  ELSE [none EXCEPT !.ui = textareaUpdate(u, key)]

\* case tea.KeyPressMsg and, for the keys that leave the switch, the
\* textarea update at the end of Update: the ChatModel fields after the key
\* and the prompt that was submitted, <<>> for none.  idle is
\* m.streamCh == nil && m.iStreamCh == nil.
keyPress(u, key, idle) ==
  LET none == [ui |-> u, submit |-> <<>>] IN
  IF key = "esc"
    THEN [none EXCEPT !.ui = [u EXCEPT !.scrollMode = ~@, !.focused = u.scrollMode]]
  ELSE IF u.scrollMode
    THEN IF key = "i" \/ key = "enter"
           THEN [none EXCEPT !.ui = [u EXCEPT !.scrollMode = FALSE, !.focused = TRUE]]
           ELSE [none EXCEPT !.ui = [u EXCEPT !.viewport = Append(@, key)]]
  ELSE IF key = "shift+enter"
    THEN [none EXCEPT !.ui = [u EXCEPT !.value = Append(@, "\n")]]
  ELSE IF key = "enter"
    THEN IF TrimSpace(u.value) # <<>> /\ idle
           THEN [ui |-> [u EXCEPT !.value = <<>>], submit |-> TrimSpace(u.value)]
           ELSE none
  ELSE [none EXCEPT !.ui = textareaUpdate(u, key)]

\* tea.KeyPressMsg
KeyPress(key) ==
  LET r == keyPress(kbd, key, streamCh = "nil" /\ imode.iStreamCh = "nil") IN
  /\ Len(kbd.keys) < MaxKeys
  /\ kbd' = [r.ui EXCEPT !.keys = Append(@, key)]
  /\ entries' = IF r.submit # <<>>
                  THEN Append(entries, [chatEntry EXCEPT !.role = "user", !.text = r.submit])
                  ELSE entries
  /\ starting' = IF r.submit # <<>> /\ ~imode.interactive THEN starting + 1 ELSE starting
  /\ ipend' = IF r.submit # <<>> /\ imode.interactive
                THEN withCmd(ipend, enterCmd(imode.iSession, r.submit))
                ELSE ipend
  /\ UNCHANGED <<streamCh, nInputs, procs, msgs, turnVars, decVars, banner, stats, isess, imode, fnVars>>

NextKey ==
  \/ \E key \in Keys : KeyPress(key)
  \/ RunStreamClaude
  \/ \E m \in BagToSet(msgs) : UpdateStart(m)

SpecKey == Init /\ [][NextKey]_vars

(***************************************************************************)
(* PermissionMode.  A ChatModel's mode is set from outside (a flag, the    *)
(* system init event) and advanced with Next; perm is the list of the      *)
(* modes it went through, each with the operation that produced it.        *)
(***************************************************************************)
MaxModeOps == 5

PermPlan == "plan"
PermAcceptEdits == "acceptEdits"
PermBypassPermissions == "bypassPermissions"
PermDontAsk == "dontAsk"

\* the modes a ChatModel is given: the four known ones, an unknown one and
\* the empty one
ModeMenu == {PermPlan, PermAcceptEdits, PermBypassPermissions, PermDontAsk,
             "unknown", ""}

\* a Next that does not wrap around
permissionModeNextNoWrap(mode) ==
  CASE mode = PermPlan -> PermAcceptEdits
    [] mode = PermAcceptEdits -> PermBypassPermissions
    [] mode = PermBypassPermissions -> PermDontAsk
    [] mode = PermDontAsk -> PermDontAsk
    [] OTHER -> PermPlan

\* PermissionMode.Next
permissionModeNext(mode) ==
  CASE mode = PermPlan -> PermAcceptEdits
    [] mode = PermAcceptEdits -> PermBypassPermissions
    [] mode = PermBypassPermissions -> PermDontAsk
    [] mode = PermDontAsk -> PermPlan
    [] OTHER -> PermPlan

\* the mode is set
SetMode(mode) ==
  /\ Len(perm) < MaxModeOps
  /\ perm' = Append(perm, [op |-> "set", mode |-> mode])
  /\ UNCHANGED <<entries, streamCh, nInputs, turnVars, chVars, decVars, banner, stats,
                 ptyVars, wrap>>

\* m.permMode = m.permMode.Next()
CycleMode ==
  /\ perm # <<>>
  /\ Len(perm) < MaxModeOps
  /\ perm' = Append(perm, [op |-> "Next", mode |-> permissionModeNext(perm[Len(perm)].mode)])
  /\ UNCHANGED <<entries, streamCh, nInputs, turnVars, chVars, decVars, banner, stats,
                 ptyVars, wrap>>

NextPerm ==
  \/ \E mode \in ModeMenu : SetMode(mode)
  \/ CycleMode

SpecPerm == Init /\ [][NextPerm]_vars

(***************************************************************************)
(* wrapText.  A string is the sequence of its bytes: "a", " " and "\n"     *)
(* are one-byte runes, "C3" "A9" are the two bytes of the rune é, and      *)
(* "EF" "BF" "BD" the three bytes of U+FFFD, which Go decodes every        *)
(* invalid byte to.  The call is followed statement by statement: wrap.pc  *)
(* is "range" at the head of the loop over the paragraphs, "loop" at the   *)
(* head of the inner loop and "done" after the return; a line is kept with *)
(* the paragraph it was cut from and the byte offset where it starts.      *)
(***************************************************************************)
MaxRunes == 4
MaxWidth == 3

Runes == {"a", " ", "\n", "é"}
Widths == (0 - 1)..MaxWidth

\* string(r) of one rune
encodeRune(r) ==
  CASE r = "é" -> <<"C3", "A9">>
    [] r = "FFFD" -> <<"EF", "BF", "BD">>
    [] OTHER -> <<r>>

\* string(rs) of a []rune
RECURSIVE encodeRunes(_)
encodeRunes(rs) ==
  IF rs = <<>> THEN <<>> ELSE encodeRune(Head(rs)) \o encodeRunes(Tail(rs))

\* utf8.DecodeRuneInString: the first rune of a non-empty string and its size
decodeRune(s) ==
  IF Len(s) >= 2 /\ s[1] = "C3" /\ s[2] = "A9" THEN [r |-> "é", size |-> 2]
  ELSE IF Len(s) >= 3 /\ s[1] = "EF" /\ s[2] = "BF" /\ s[3] = "BD"
    THEN [r |-> "FFFD", size |-> 3]
  ELSE IF s[1] \in {"C3", "A9", "EF", "BF", "BD"} THEN [r |-> "FFFD", size |-> 1]
  ELSE [r |-> s[1], size |-> 1]

\* []rune(s)
RECURSIVE runesOf(_)
runesOf(s) ==
  IF s = <<>> THEN <<>>
  ELSE <<decodeRune(s).r>> \o runesOf(SubSeq(s, decodeRune(s).size + 1, Len(s)))

\* utf8.RuneCountInString
RuneCountInString(s) == Len(runesOf(s))

\* strings.Split(s, "\n")
RECURSIVE splitLines(_, _)
splitLines(s, cur) ==
  IF s = <<>> THEN <<cur>>
  ELSE IF Head(s) = "\n" THEN <<cur>> \o splitLines(Tail(s), <<>>)
  ELSE splitLines(Tail(s), Append(cur, Head(s)))

\* strings.LastIndex(s, " "): 0-based, -1 when there is none
lastIndexSpace(s) ==
  IF \E i \in 1..Len(s) : s[i] = " "
    THEN (CHOOSE i \in 1..Len(s) : s[i] = " " /\ \A j \in (i + 1)..Len(s) : s[j] # " ") - 1
    ELSE 0 - 1

\* strings.TrimLeft(s, " ")
RECURSIVE trimLeftSpaces(_)
trimLeftSpaces(s) ==
  IF s # <<>> /\ Head(s) = " " THEN trimLeftSpaces(Tail(s)) ELSE s

\* s[from:] with a 0-based from
sliceFrom(s, from) == SubSeq(s, from + 1, Len(s))

\* the line that starts where remaining starts in the current paragraph
lineHere(w, s) ==
  [para |-> w.para, at |-> Len(w.paragraphs[w.para]) - Len(w.remaining), s |-> s]

\* a loop body without the hard break: a prefix without a word boundary is
\* not cut
wrapIterNoHardBreak(w) ==
  LET prefix == encodeRunes(SubSeq(runesOf(w.remaining), 1, w.width))
      breakAt == lastIndexSpace(prefix)
  IN  IF breakAt <= 0
        THEN [w EXCEPT !.lines = Append(@, lineHere(w, w.remaining)),
                       !.remaining = <<>>]
        ELSE [w EXCEPT !.lines = Append(@, lineHere(w, SubSeq(w.remaining, 1, breakAt))),
                       !.remaining = trimLeftSpaces(sliceFrom(w.remaining, breakAt))]

\* the body of the inner loop of wrapText
wrapIter(w) ==
  LET prefix == encodeRunes(SubSeq(runesOf(w.remaining), 1, w.width))
      breakAt == lastIndexSpace(prefix)
  IN  IF breakAt <= 0
        THEN [w EXCEPT !.lines = Append(@, lineHere(w, prefix)),
                       !.remaining = sliceFrom(w.remaining, Len(prefix))]
        ELSE [w EXCEPT !.lines = Append(@, lineHere(w, SubSeq(w.remaining, 1, breakAt))),
                       !.remaining = trimLeftSpaces(sliceFrom(w.remaining, breakAt))]

wrapFrame ==
  UNCHANGED <<entries, streamCh, nInputs, turnVars, chVars, decVars, banner, stats,
              ptyVars, perm>>

\* wrapText(text, width) up to the loop over the paragraphs
WrapCall(rs, width) ==
  /\ wrap.pc = "idle"
  /\ wrap' = IF width <= 0
               THEN [wrap EXCEPT !.pc = "done", !.text = encodeRunes(rs), !.width = width,
                                 !.lines = <<[para |-> 0, at |-> 0, s |-> encodeRunes(rs)]>>]
               ELSE [wrap EXCEPT !.pc = "range", !.text = encodeRunes(rs), !.width = width,
                                 !.paragraphs = splitLines(encodeRunes(rs), <<>>)]
  /\ wrapFrame

\* the next paragraph: appended when it fits, else wrapped
WrapParagraph ==
  /\ wrap.pc = "range"
  /\ wrap.para < Len(wrap.paragraphs)
  /\ LET p == wrap.para + 1
         fits == RuneCountInString(wrap.paragraphs[p]) <= wrap.width
     IN  wrap' = IF fits
                   THEN [wrap EXCEPT !.para = p,
                                     !.lines = Append(@, [para |-> p, at |-> 0,
                                                          s |-> wrap.paragraphs[p]])]
                   ELSE [wrap EXCEPT !.para = p, !.remaining = wrap.paragraphs[p],
                                     !.pc = "loop"]
  /\ wrapFrame

\* one round of the inner loop
WrapIter ==
  /\ wrap.pc = "loop"
  /\ RuneCountInString(wrap.remaining) > wrap.width
  /\ wrap' = wrapIter(wrap)
  /\ wrapFrame

\* the inner loop ends: what remains is appended unless it is empty
WrapRest ==
  /\ wrap.pc = "loop"
  /\ RuneCountInString(wrap.remaining) <= wrap.width
  /\ wrap' = [wrap EXCEPT !.pc = "range", !.remaining = <<>>,
                          !.lines = IF wrap.remaining # <<>>
                                      THEN Append(@, lineHere(wrap, wrap.remaining))
                                      ELSE @]
  /\ wrapFrame

\* return lines
WrapReturn ==
  /\ wrap.pc = "range"
  /\ wrap.para = Len(wrap.paragraphs)
  /\ wrap' = [wrap EXCEPT !.pc = "done"]
  /\ wrapFrame

\* every text of up to MaxRunes runes
Texts == UNION {[1..n -> Runes] : n \in 0..MaxRunes}

NextWrap ==
  \/ \E rs \in Texts, width \in Widths : WrapCall(rs, width)
  \/ WrapParagraph
  \/ WrapIter
  \/ WrapRest
  \/ WrapReturn

SpecWrap == Init /\ [][NextWrap]_vars

(***************************************************************************)
(* Vocabulary of the properties                                            *)
(***************************************************************************)
\* the block list of the turn that is being streamed
turnBlocks == IF hasStreamingEntry THEN lastEntry.blocks ELSE <<>>

\* a step that handles the ClaudeStreamChunkMsg of one more event
isChunkStep ==
  /\ cmd = "waitForStreamMsg"
  /\ hasStreamingEntry
  /\ Len(events') = Len(events) + 1

\* the event of a chunk step
chunkEvent == events'[Len(events')]

\* a step that handles the ClaudeStreamDoneMsg of a successful stream
isFinalizeStep ==
  /\ cmd = "waitForStreamMsg"
  /\ hasStreamingEntry
  /\ cmd' = "none"
  /\ Len(entries') = Len(entries)
  /\ entries'[Len(entries)].role = "assistant"

isTaskBlock(b) == b.Kind = BlockToolUse /\ b.IsTask

RECURSIVE joinTexts(_, _)
joinTexts(texts, i) == IF i > Len(texts) THEN <<>> ELSE texts[i] \o joinTexts(texts, i + 1)

\* the texts of the items of an array content, in order
itemTexts(content) ==
  LET withText == SelectSeq(content.items, LAMBDA it : it.hasText)
  IN [i \in 1..Len(withText) |-> withText[i].text]

\* the tool_result items of an event, in order
resultItems(ev) == SelectSeq(ev.content, LAMBDA it : it.type = "tool_result")
toolUseItems(ev) == SelectSeq(ev.content, LAMBDA it : it.type = "tool_use")

isBlockStart(ev) ==
  /\ ev.parent_tool_use_id = ""
  /\ \/ ev.type = "content_block_start"
     \/ ev.type = "stream_event" /\ ev.event.type = "content_block_start"

announced(ev) ==
  IF ev.type = "content_block_start" THEN ev.content_block ELSE ev.event.content_block

isTextOrThinkingDelta(ev) ==
  /\ ev.type = "stream_event"
  /\ ev.event.type = "content_block_delta"
  /\ ev.event.delta.type \in {"text_delta", "thinking_delta"}

\* the text fragments of a list of events, concatenated in arrival order
RECURSIVE textOf(_, _)
textOf(evs, i) ==
  IF i > Len(evs) THEN <<>> ELSE evs[i].event.delta.text \o textOf(evs, i + 1)

(***************************************************************************)
(* C1.  ExtractBlocks over the complete event list yields the same block   *)
(* list as the streaming assembler fed the same events one at a time on a  *)
(* fresh turn and then finalized: when a stream ends successfully, the     *)
(* finalized blocks of the turn equal ExtractBlocks(Response.Events).      *)
(***************************************************************************)
C1_BatchEqualsStreaming ==
  [][isFinalizeStep => entries'[Len(entries)].blocks = ExtractBlocks(events)]_vars

(***************************************************************************)
(* C2.  An event whose parent_tool_use_id names no delegation block of the *)
(* turn leaves the turn's block list unchanged, also by the delta it       *)
(* carries, and produces no error entry.                                   *)
(***************************************************************************)
C2_UnknownParentIsNoOp ==
  [][(/\ isChunkStep
      /\ chunkEvent.parent_tool_use_id # ""
      /\ \A i \in 1..Len(turnBlocks) :
           ~(isTaskBlock(turnBlocks[i]) /\ turnBlocks[i].ToolID = chunkEvent.parent_tool_use_id))
     => /\ Len(entries') = Len(entries)
        /\ entries'[Len(entries)].role = "assistant"
        /\ entries'[Len(entries)].blocks = turnBlocks]_vars

(***************************************************************************)
(* C3.  Finalizing twice is finalizing once: the finalization step applied *)
(* to the blocks of a finalized turn changes no block, and on the blocks   *)
(* of a turn still streaming a second application changes nothing that the *)
(* first produced.                                                         *)
(***************************************************************************)
C3_FinalizeIdempotent ==
  \A e \in 1..Len(entries) :
    LET once == finalizeBlocks(entries[e].blocks)
    IN /\ finalizeBlocks(once) = once
       /\ entries[e].hasResult => once = entries[e].blocks

\* a finalized turn holds a Task block whose input was re-indented and parsed
C3_Witness ==
  \E e \in 1..Len(entries) :
    /\ entries[e].hasResult
    /\ \E i \in 1..Len(entries[e].blocks) :
         LET b == entries[e].blocks[i]
         IN /\ isTaskBlock(b)
            /\ b.TaskDescription = "find"
            /\ b.TaskPrompt = "ls"
            /\ \E k \in 1..Len(b.ToolInput) : b.ToolInput[k] = "\n"

(***************************************************************************)
(* C4.  Text and thinking fragments fed to a fresh streaming turn without  *)
(* block-start events.                                                     *)
(***************************************************************************)
deltaOnlyTurn ==
  /\ hasStreamingEntry
  /\ Len(events) > 0
  /\ \A i \in 1..Len(events) : isTextOrThinkingDelta(events[i])

toolPairingTurn ==
  /\ hasStreamingEntry
  /\ Len(events) = 2
  /\ isBlockStart(events[1])
  /\ announced(events[1]).type = "tool_use"
  /\ events[2].type = "user"
  /\ events[2].parent_tool_use_id = ""
  /\ Len(events[2].content) = 1
  /\ events[2].content[1].type = "tool_result"
  /\ events[2].content[1].tool_use_id = announced(events[1]).id

C5_ToolPairing ==
  toolPairingTurn =>
    LET cb == announced(events[1])
        item == events[2].content[1]
    IN /\ Len(turnBlocks) = 2
       /\ turnBlocks[1].Kind = BlockToolUse
       /\ turnBlocks[1].ToolName = cb.name
       /\ turnBlocks[1].ToolID = cb.id
       /\ turnBlocks[2].Kind = BlockToolResult
       /\ turnBlocks[2].ToolID = cb.id
       /\ turnBlocks[2].IsError = item.is_error
       /\ turnBlocks[2].ToolOutput =
            IF item.content.shape = "array"
              THEN joinTexts(SelectSeq(itemTexts(item.content),
                     LAMBDA t : ~(cb.name = "Task" /\ hasAgentIDPrefix(t))), 1)
              ELSE item.content.str

\* the scenario Bash/t1 started, then its result "ok"
C5_Witness ==
  /\ toolPairingTurn
  /\ turnBlocks[1].ToolName = "Bash"
  /\ turnBlocks[1].ToolID = "t1"
  /\ turnBlocks[2].ToolID = "t1"
  /\ turnBlocks[2].ToolOutput = <<"ok">>
  /\ ~turnBlocks[2].IsError

(***************************************************************************)
(* C6.  The output of a tool_result whose content is an array of text      *)
(* items is the concatenation of the item texts in order, except that the  *)
(* items starting with "agentId:" are omitted when the result's            *)
(* tool_use_id matches a delegation block already in the block list; for a *)
(* result that matches no delegation no item is omitted.                   *)
(***************************************************************************)
C6_DelegationFiltering ==
  [][(/\ isChunkStep
      /\ chunkEvent.type = "user"
      /\ chunkEvent.parent_tool_use_id = ""
      /\ Len(chunkEvent.content) = 1
      /\ chunkEvent.content[1].type = "tool_result"
      /\ chunkEvent.content[1].content.shape = "array")
     => LET item == chunkEvent.content[1]
            closesTask == \E i \in 1..Len(turnBlocks) :
                            isTaskBlock(turnBlocks[i]) /\ turnBlocks[i].ToolID = item.tool_use_id
            after == entries'[Len(entries)].blocks
            kept == SelectSeq(itemTexts(item.content),
                              LAMBDA t : ~(closesTask /\ hasAgentIDPrefix(t)))
        IN /\ Len(after) = Len(turnBlocks) + 1
           /\ after[Len(after)].ToolOutput = joinTexts(kept, 1)]_vars

\* the result of a delegation, stripped, and an ordinary result with the same
\* content, kept whole, in one turn
C6_Witness ==
  /\ hasStreamingEntry
  /\ \E i, j \in 1..Len(turnBlocks) :
       /\ turnBlocks[i].Kind = BlockToolResult
       /\ turnBlocks[i].ToolID = "task1"
       /\ turnBlocks[i].ToolOutput = <<"done">>
       /\ turnBlocks[j].Kind = BlockToolResult
       /\ turnBlocks[j].ToolID = "t1"
       /\ turnBlocks[j].ToolOutput = <<"agentId:", "abc", "done">>

(***************************************************************************)
(* C7.  Every tool_result item of a top-level user event appends exactly   *)
(* one ToolResult block to the top-level block list, whether or not its id *)
(* matches a delegation; when it matches, the delegation block receives    *)
(* the metadata of the event's tool_use_result, and no delegation's        *)
(* sub-block list changes.                                                 *)
(***************************************************************************)
C7_TopLevelResultAppended ==
  [][(/\ isChunkStep
      /\ chunkEvent.type = "user"
      /\ chunkEvent.parent_tool_use_id = "")
     => LET items == resultItems(chunkEvent)
            after == entries'[Len(entries)].blocks
            n == Len(turnBlocks)
        IN /\ Len(after) = n + Len(items)
           /\ \A k \in 1..Len(items) :
                /\ after[n + k].Kind = BlockToolResult
                /\ after[n + k].ToolID = items[k].tool_use_id
                /\ after[n + k].IsError = items[k].is_error
           /\ \A i \in 1..n :
                /\ after[i].TaskSubBlocks = turnBlocks[i].TaskSubBlocks
                /\ after[i].Kind = turnBlocks[i].Kind
                /\ after[i].ToolID = turnBlocks[i].ToolID
                /\ after[i].TaskMeta =
                     IF \E k \in 1..Len(items) :
                          i = findTaskBlockIndex(turnBlocks, items[k].tool_use_id)
                       THEN chunkEvent.tool_use_result
                       ELSE turnBlocks[i].TaskMeta]_vars

\* a delegation with a sub-block, closed: it holds the metadata, keeps its
\* sub-block, and its result is the next top-level block
C7_Witness ==
  /\ hasStreamingEntry
  /\ Len(turnBlocks) = 2
  /\ isTaskBlock(turnBlocks[1])
  /\ turnBlocks[1].TaskMeta = AgentMeta
  /\ Len(turnBlocks[1].TaskSubBlocks) = 1
  /\ turnBlocks[2].Kind = BlockToolResult
  /\ turnBlocks[2].ToolID = turnBlocks[1].ToolID

(***************************************************************************)
(* C8.  An assistant or user event whose parent_tool_use_id matches a      *)
(* delegation block appends its tool_use / tool_result items, in item      *)
(* order, to the sub-block list of that delegation only: the top-level     *)
(* list keeps its length, no other block changes, and the sub-results keep *)
(* every content fragment.                                                 *)
(***************************************************************************)
expectedSubBlocks(ev) ==
  IF ev.type = "assistant"
    THEN [k \in 1..Len(toolUseItems(ev)) |->
            [ChatBlock EXCEPT !.Kind = BlockToolUse,
                              !.ToolName = toolUseItems(ev)[k].name,
                              !.ToolID = toolUseItems(ev)[k].id,
                              !.ToolInput = inputString(toolUseItems(ev)[k].input)]]
    ELSE [k \in 1..Len(resultItems(ev)) |->
            [ChatBlock EXCEPT !.Kind = BlockToolResult,
                              !.ToolID = resultItems(ev)[k].tool_use_id,
                              !.IsError = resultItems(ev)[k].is_error,
                              !.ToolOutput =
                                 IF resultItems(ev)[k].content.shape = "array"
                                   THEN joinTexts(itemTexts(resultItems(ev)[k].content), 1)
                                   ELSE resultItems(ev)[k].content.str]]

C8_SubEventRouted ==
  [][(/\ isChunkStep
      /\ chunkEvent.type \in {"assistant", "user"}
      /\ chunkEvent.parent_tool_use_id # ""
      /\ findTaskBlockIndex(turnBlocks, chunkEvent.parent_tool_use_id) > 0)
     => LET idx == findTaskBlockIndex(turnBlocks, chunkEvent.parent_tool_use_id)
            after == entries'[Len(entries)].blocks
        IN /\ Len(after) = Len(turnBlocks)
           /\ \A i \in 1..Len(after) : i # idx => after[i] = turnBlocks[i]
           /\ after[idx].TaskSubBlocks =
                turnBlocks[idx].TaskSubBlocks \o expectedSubBlocks(chunkEvent)]_vars

\* a delegation holding the sub-invocations of one sub-event and then a
\* sub-result that kept its agentId fragment
C8_Witness ==
  /\ hasStreamingEntry
  /\ Len(turnBlocks) = 1
  /\ isTaskBlock(turnBlocks[1])
  /\ Len(turnBlocks[1].TaskSubBlocks) = 3
  /\ turnBlocks[1].TaskSubBlocks[1].Kind = BlockToolUse
  /\ turnBlocks[1].TaskSubBlocks[1].ToolName = "Read"
  /\ turnBlocks[1].TaskSubBlocks[3].Kind = BlockToolResult
  /\ turnBlocks[1].TaskSubBlocks[3].ToolOutput = <<"agentId:", "abc", "done">>

(***************************************************************************)
(* C9.  Sub-events are never buffered or late-bound: the sub-block list of *)
(* a delegation block holds the items of exactly the sub-events that name  *)
(* it and arrived after its block-started event; a sub-event that arrived  *)
(* before is absent in every later state, also after the delegation block  *)
(* has been opened.                                                        *)
(***************************************************************************)
opensDelegation(ev, id) ==
  /\ isBlockStart(ev)
  /\ announced(ev).type = "tool_use"
  /\ announced(ev).name = "Task"
  /\ announced(ev).id = id

\* the position in the event list of the first block-started event of the
\* delegation id, 0 when there is none
RECURSIVE openedAt(_, _)
openedAt(id, k) ==
  IF k > Len(events) THEN 0
  ELSE IF opensDelegation(events[k], id) THEN k
  ELSE openedAt(id, k + 1)

\* the sub-blocks of the sub-events that name id, from position k on
RECURSIVE subBlocksSince(_, _)
subBlocksSince(id, k) ==
  IF k > Len(events) THEN <<>>
  ELSE (IF events[k].type \in {"assistant", "user"} /\ events[k].parent_tool_use_id = id
          THEN expectedSubBlocks(events[k])
          ELSE <<>>) \o subBlocksSince(id, k + 1)

arrivedEarly(id) ==
  \E k \in 1..Len(events) :
     /\ events[k].type \in {"assistant", "user"}
     /\ events[k].parent_tool_use_id = id
     /\ expectedSubBlocks(events[k]) # <<>>
     /\ \/ openedAt(id, 1) = 0
        \/ k < openedAt(id, 1)

C9_NoLateBinding ==
  hasStreamingEntry =>
    \A i \in 1..Len(turnBlocks) :
       isTaskBlock(turnBlocks[i]) =>
         LET id == turnBlocks[i].ToolID
             first == \A j \in 1..(i - 1) :
                         ~(isTaskBlock(turnBlocks[j]) /\ turnBlocks[j].ToolID = id)
         IN turnBlocks[i].TaskSubBlocks =
              IF first /\ openedAt(id, 1) > 0
                THEN subBlocksSince(id, openedAt(id, 1) + 1)
                ELSE <<>>

\* a sub-event arrived before its delegation was opened; the delegation is open
\* now, has received a later sub-event, and holds that one only
C9_Witness ==
  /\ hasStreamingEntry
  /\ arrivedEarly("task1")
  /\ \E i \in 1..Len(turnBlocks) :
       /\ isTaskBlock(turnBlocks[i])
       /\ turnBlocks[i].ToolID = "task1"
       /\ Len(turnBlocks[i].TaskSubBlocks) = 1
       /\ turnBlocks[i].TaskSubBlocks[1].Kind = BlockToolResult

(***************************************************************************)
(* C10. An input_json_delta fragment is appended to the input of the last  *)
(* ToolInvocation block of the block list and to no other block; when the  *)
(* block list holds no ToolInvocation block the fragment is discarded and  *)
(* the block list is unchanged.                                            *)
(***************************************************************************)
isInputJSONDelta(ev) ==
  /\ ev.type = "stream_event"
  /\ ev.event.type = "content_block_delta"
  /\ ev.event.delta.type = "input_json_delta"
  /\ ev.event.delta.partial_json # <<>>

C10_InputJSONToLastTool ==
  [][(isChunkStep /\ isInputJSONDelta(chunkEvent))
     => LET after == entries'[Len(entries)].blocks
            tools == {i \in 1..Len(turnBlocks) : turnBlocks[i].Kind = BlockToolUse}
        IN /\ Len(after) = Len(turnBlocks)
           /\ \A i \in 1..Len(turnBlocks) :
                /\ after[i].Kind = turnBlocks[i].Kind
                /\ after[i].ToolInput =
                     IF i \in tools /\ \A j \in tools : j <= i
                       THEN turnBlocks[i].ToolInput \o chunkEvent.event.delta.partial_json
                       ELSE turnBlocks[i].ToolInput
           /\ tools = {} => after = turnBlocks]_vars

\* two open tools: the fragment went to the last one and left the first one
\* without input
C10_Witness ==
  /\ hasStreamingEntry
  /\ Len(turnBlocks) = 2
  /\ turnBlocks[1].Kind = BlockToolUse
  /\ turnBlocks[1].ToolInput = <<>>
  /\ turnBlocks[2].Kind = BlockToolUse
  /\ turnBlocks[2].ToolInput = TaskInputHead
  /\ isInputJSONDelta(events[Len(events)])

\* a fragment that found no tool to go to: the turn has no block
C10_WitnessDiscarded ==
  /\ hasStreamingEntry
  /\ Len(events) > 0
  /\ isInputJSONDelta(events[Len(events)])
  /\ turnBlocks = <<>>

(***************************************************************************)
(* C11. A thinking_delta fragment is appended to the last Reasoning block  *)
(* of the turn's block list, or opens a new Reasoning block holding the    *)
(* fragment when the list has none, so that reasoning content is part of   *)
(* the ordered block list.                                                 *)
(***************************************************************************)
isThinkingDelta(ev) ==
  /\ ev.type = "stream_event"
  /\ ev.event.type = "content_block_delta"
  /\ ev.event.delta.type = "thinking_delta"
  /\ ev.event.delta.thinking # <<>>

C11_ThinkingToReasoningBlock ==
  [][(isChunkStep /\ isThinkingDelta(chunkEvent))
     => LET after == entries'[Len(entries)].blocks
            frag == chunkEvent.event.delta.thinking
            ri == lastBlockIndex(turnBlocks, BlockThinking)
        IN IF ri > 0
             THEN /\ Len(after) = Len(turnBlocks)
                  /\ after[ri].Text = turnBlocks[ri].Text \o frag
             ELSE /\ Len(after) = Len(turnBlocks) + 1
                  /\ after[Len(after)].Kind = BlockThinking
                  /\ after[Len(after)].Text = frag]_vars

(***************************************************************************)
(* C14. While a turn is streaming, each processed event only appends       *)
(* blocks or extends the content of existing blocks: the top-level block   *)
(* list and every delegation's sub-block list never shrink, and the kind,  *)
(* correlation id and relative order of the blocks already present never   *)
(* change.                                                                 *)
(***************************************************************************)
isPrefix(a, b) == Len(a) <= Len(b) /\ SubSeq(b, 1, Len(a)) = a

\* block b extended to block c: same kind and id, content only grown
extendsBlock(b, c) ==
  /\ c.Kind = b.Kind
  /\ c.ToolID = b.ToolID
  /\ c.ToolName = b.ToolName
  /\ isPrefix(b.Text, c.Text)
  /\ isPrefix(b.ToolInput, c.ToolInput)
  /\ isPrefix(b.ToolOutput, c.ToolOutput)
  /\ isPrefix(b.TaskSubBlocks, c.TaskSubBlocks)

C14_AppendOnlyWhileStreaming ==
  [][isChunkStep
     => LET after == entries'[Len(entries)].blocks
        IN /\ Len(entries') = Len(entries)
           /\ entries'[Len(entries)].streaming
           /\ Len(after) >= Len(turnBlocks)
           /\ \A i \in 1..Len(turnBlocks) : extendsBlock(turnBlocks[i], after[i])]_vars

\* a turn in which a text block was extended by a second fragment after a
\* delegation had received a sub-block
C14_Witness ==
  /\ hasStreamingEntry
  /\ \E i, j \in 1..Len(turnBlocks) :
       /\ isTaskBlock(turnBlocks[i])
       /\ Len(turnBlocks[i].TaskSubBlocks) = 1
       /\ turnBlocks[j].Kind = BlockText
       /\ Len(turnBlocks[j].Text) = 1
       /\ Len(events) = 3

\* a text block that grew by a second fragment
C14_WitnessExtended ==
  /\ hasStreamingEntry
  /\ \E j \in 1..Len(turnBlocks) :
       /\ turnBlocks[j].Kind = BlockText
       /\ turnBlocks[j].Text = <<"Hel", "lo">>

(***************************************************************************)
(* C15. In every reachable state of a turn, each ToolResult block's id     *)
(* equals the id of exactly one ToolInvocation block at the same level     *)
(* (the top-level list, or the sub-block list of the same delegation).     *)
(***************************************************************************)
pairedAtLevel(blocks) ==
  \A i \in 1..Len(blocks) :
     blocks[i].Kind = BlockToolResult =>
       Cardinality({j \in 1..Len(blocks) :
                      blocks[j].Kind = BlockToolUse /\ blocks[j].ToolID = blocks[i].ToolID}) = 1

C15_ResultPairedWithOneInvocation ==
  \A e \in 1..Len(entries) :
     /\ pairedAtLevel(entries[e].blocks)
     /\ \A i \in 1..Len(entries[e].blocks) :
          pairedAtLevel(entries[e].blocks[i].TaskSubBlocks)

(***************************************************************************)
(* Vocabulary of the channel-level properties                              *)
(***************************************************************************)
\* a step in which Update handles message m
handled(m) == BagIn(m, msgs) /\ msgs' = msgs (-) SetToBag({m})

\* the last message of channel c has been received
doneReceived(c) ==
  /\ procs[c].nread > 0
  /\ procs[c].sent[procs[c].nread].Done

\* the ClaudeStreamDoneMsgs that the reads of channel c have returned so far
doneMsgsOf(c) == (IF doneReceived(c) THEN 1 ELSE 0) + procs[c].closedReads

lastIsStreaming(es) == Len(es) > 0 /\ es[Len(es)].streaming

(***************************************************************************)
(* C12. When a stream ends with an error (ClaudeStreamDoneMsg with Err,    *)
(* including an unexpectedly closed channel) while the last entry is       *)
(* streaming, that entry is replaced by one error entry holding the error  *)
(* text: the partial blocks are discarded and the number of entries is     *)
(* unchanged; when no entry is streaming one error entry is appended.  The *)
(* end of a stream is surfaced once per stream: no stream yields a second  *)
(* ClaudeStreamDoneMsg, so a turn is never both failed and finalized.      *)
(***************************************************************************)
errorTurnSubstituted ==
  \A m \in BagToSet(msgs) :
     (handled(m) /\ m.msg = "ClaudeStreamDoneMsg" /\ m.Err # <<>>)
       => IF lastIsStreaming(entries)
            THEN /\ Len(entries') = Len(entries)
                 /\ \A e \in 1..(Len(entries) - 1) : entries'[e] = entries[e]
                 /\ entries'[Len(entries)].role = "error"
                 /\ entries'[Len(entries)].text = m.Err
                 /\ entries'[Len(entries)].blocks = <<>>
                 /\ ~entries'[Len(entries)].streaming
            ELSE /\ Len(entries') = Len(entries) + 1
                 /\ \A e \in 1..Len(entries) : entries'[e] = entries[e]
                 /\ entries'[Len(entries')].role = "error"
                 /\ entries'[Len(entries')].text = m.Err

surfacedOncePerStream == \A c \in 1..Len(procs) : doneMsgsOf(c) <= 1

C12_ErrorTurn == [][errorTurnSubstituted /\ surfacedOncePerStream']_vars

\* the substitution of the error entry alone
C12_ErrorEntrySubstituted == [][errorTurnSubstituted]_vars

(***************************************************************************)
(* C17. A turn's block list is mutated by one consumer only: in every      *)
(* interleaving of key presses and stream messages at most one read        *)
(* (waitForStreamMsg) is outstanding on a stream channel at a time,        *)
(* pending or returned and not yet handled, so that chunks are applied to  *)
(* the turn one at a time in the order the producer sent them.             *)
(***************************************************************************)
\* the messages read from channel c that Update has not handled yet
unhandledOf(c) ==
  LET from == {m \in BagToSet(msgs) : m.from = c}
      RECURSIVE sum(_)
      sum(S) == IF S = {} THEN 0
                ELSE LET m == CHOOSE x \in S : TRUE
                     IN CopiesIn(m, msgs) + sum(S \ {m})
  IN sum(from)

C17_SingleConsumer ==
  \A c \in 1..Len(procs) : procs[c].readers + unhandledOf(c) <= 1

(***************************************************************************)
(* C18. Every turn that starts streaming is closed out: once every         *)
(* subprocess has exited, every channel is closed and no command or        *)
(* message is left, no entry is streaming, the stream-channel reference is *)
(* cleared and every channel has been drained.                             *)
(***************************************************************************)
quiescent ==
  /\ starting = 0
  /\ msgs = EmptyBag
  /\ \A c \in 1..Len(procs) : procs[c].pc = "closed" /\ procs[c].readers = 0

C13_FinalizedImmutable ==
  [][\A m \in BagToSet(msgs) :
       (handled(m) /\ m.msg = "ClaudeStreamChunkMsg")
         => /\ Len(entries') = Len(entries)
            /\ \A e \in 1..Len(entries) :
                 (e < Len(entries) \/ ~entries[e].streaming) => entries'[e] = entries[e]
            /\ streamCh = "nil" => (entries' = entries /\ procs' = procs)]_vars

\* the text chunk of a stream has been received and handled, and it is in no
\* entry, the last of which is a finalized turn: the chunk came after the
\* ClaudeStreamDoneMsg
C13_Witness ==
  /\ \E c \in 1..Len(procs) :
       /\ procs[c].nread > 0
       /\ ~procs[c].sent[1].Done
       /\ procs[c].sent[1].Event.Type = "stream_event"
       /\ unhandledOf(c) = 0
  /\ Len(entries) > 0
  /\ entries[Len(entries)].role = "assistant"
  /\ entries[Len(entries)].hasResult
  /\ \A e \in 1..Len(entries) :
       /\ entries[e].role # "error"
       /\ entries[e].streamText = <<>>
       /\ entries[e].blocks = <<>>

(***************************************************************************)
(* The lines of StdoutLines that are valid structured data, with the type  *)
(* of their event (TestParseEventLine: wantNil, wantType, wantErr).        *)
(***************************************************************************)
DecodableLines == {RawTextDelta("\"Hel\""), BadResultLine}
MalformedResultLines == {BadResultLine}
wantType(line) == IF line \in MalformedResultLines THEN "result" ELSE "stream_event"
wantEvent(line) == [Type |-> wantType(line), Subtype |-> "", Raw |-> line]

\* the messages of channel c in front of its Done message
chunksSent(p) ==
  IF p.pc = "scan" THEN p.sent ELSE SubSeq(p.sent, 1, Len(p.sent) - 1)

(***************************************************************************)
(* C16. StreamClaude's channel carries, in order, one message per          *)
(* decodable stdout line, then exactly one message with Done=true, after   *)
(* which the channel is closed; the Done message carries exactly one of    *)
(* Err or Response, and Response.Events lists exactly the events sent on   *)
(* the channel before, in the same order.                                  *)
(***************************************************************************)
C16_ChannelProtocol ==
  \A c \in 1..Len(procs) :
     LET p == procs[c]
         chunks == chunksSent(p)
         decodable == SelectSeq(p.lines, LAMBDA l : l \in DecodableLines)
     IN /\ Len(chunks) = Len(decodable)
        /\ \A i \in 1..Len(chunks) :
             /\ ~chunks[i].Done
             /\ chunks[i].Err = <<>>
             /\ ~chunks[i].Response.present
             /\ chunks[i].Event.Raw = decodable[i]
        /\ p.pc \in {"done", "closed"} =>
             LET last == p.sent[Len(p.sent)]
             IN /\ Len(p.sent) = Len(chunks) + 1
                /\ last.Done
                /\ (last.Err # <<>>) # last.Response.present
                /\ last.Response.present =>
                     last.Response.Events = [i \in 1..Len(chunks) |-> chunks[i].Event]

\* a closed channel that carried two events and then the response with both
C16_Witness ==
  \E c \in 1..Len(procs) :
     /\ procs[c].pc = "closed"
     /\ Len(procs[c].sent) = 3
     /\ procs[c].sent[3].Response.present
     /\ Len(procs[c].sent[3].Response.Events) = 2
     /\ Len(procs[c].lines) = 3

\* a closed channel whose last message is the error of the subprocess
C16_WitnessErr ==
  \E c \in 1..Len(procs) :
     /\ procs[c].pc = "closed"
     /\ Len(procs[c].sent) = 2
     /\ procs[c].sent[2].Done
     /\ procs[c].sent[2].Err # <<>>

(***************************************************************************)
(* C19. An empty line or a line that is not valid structured data yields   *)
(* no event and no error, and reading continues: the events emitted for a  *)
(* sequence of lines are exactly its decodable lines, in order, each       *)
(* keeping its raw text verbatim.                                          *)
(***************************************************************************)
C19_UndecodableLinesSkipped ==
  [][\A c \in 1..Len(procs) :
       Len(procs'[c].lines) = Len(procs[c].lines) + 1
         => LET line == procs'[c].lines[Len(procs'[c].lines)]
            IN /\ procs'[c].pc = "scan"
               /\ IF line \in DecodableLines
                    THEN /\ procs'[c].events = Append(procs[c].events, wantEvent(line))
                         /\ Len(procs'[c].sent) = Len(procs[c].sent) + 1
                    ELSE /\ procs'[c].events = procs[c].events
                         /\ procs'[c].sent = procs[c].sent
               /\ procs'[c].events =
                    LET decodable == SelectSeq(procs'[c].lines,
                                               LAMBDA l : l \in DecodableLines)
                    IN [i \in 1..Len(decodable) |-> wantEvent(decodable[i])]]_vars

\* an undecodable line and an empty line were read, and the line behind them
\* was decoded and emitted
C19_Witness ==
  \E c \in 1..Len(procs) :
     /\ procs[c].lines = <<GarbageLine, EmptyLine, RawTextDelta("\"Hel\"")>>
     /\ Len(procs[c].events) = 1
     /\ procs[c].events[1].Raw = RawTextDelta("\"Hel\"")
     /\ Len(procs[c].sent) = 1

(***************************************************************************)
(* C20. A result line whose body does not match the expected shape is      *)
(* still returned and emitted as a typed result event, in sequence,        *)
(* together with a non-fatal error; the stream is not aborted and later    *)
(* lines are still decoded and emitted.                                    *)
(***************************************************************************)
C20_MalformedResultEmitted ==
  [][\A c \in 1..Len(procs) :
       (/\ Len(procs'[c].lines) = Len(procs[c].lines) + 1
        /\ procs'[c].lines[Len(procs'[c].lines)] \in MalformedResultLines)
         => LET line == procs'[c].lines[Len(procs'[c].lines)]
                r == parseEventLine(line, procs[c].result, procs[c].model, procs[c].stopReason)
            IN /\ ~r.isNil
               /\ r.ev.Type = "result"
               /\ r.ev.Raw = line
               /\ r.resultErr
               /\ procs'[c].pc = "scan"
               /\ procs'[c].events = Append(procs[c].events, r.ev)
               /\ procs'[c].sent =
                    Append(procs[c].sent, [StreamMsg EXCEPT !.Event = wantEvent(line)])]_vars

\* a malformed result line was emitted as a result event and the line behind
\* it was decoded and emitted as well
C20_Witness ==
  \E c \in 1..Len(procs) :
     /\ procs[c].lines = <<BadResultLine, RawTextDelta("\"Hel\"")>>
     /\ Len(procs[c].sent) = 2
     /\ procs[c].sent[1].Event.Type = "result"
     /\ procs[c].sent[2].Event.Type = "stream_event"

(***************************************************************************)
(* What a line carries, read off its text.                                 *)
(***************************************************************************)
carriedModel(line) ==
  CASE line = ModelAndStop -> "m1"
    [] line = ModelOnly -> "m2"
    [] OTHER -> ""

carriedStop(line) ==
  CASE line = ModelAndStop -> "end_turn"
    [] line = StopOnly -> "tool_use"
    [] line = ObjectModelAndStop -> "end_turn"
    [] OTHER -> ""

\* the value of the most recent line of lines that carried a non-empty one
mostRecent(lines, carried(_)) ==
  LET S == {i \in 1..Len(lines) : carried(lines[i]) # ""}
  IN IF S = {} THEN "" ELSE carried(lines[CHOOSE i \in S : \A j \in S : j <= i])

(***************************************************************************)
(* C21. After any sequence of decoded lines, the recorded model name (and  *)
(* likewise the stop reason) is the value of the most recent assistant     *)
(* event that carried a non-empty one; an assistant event with an empty or *)
(* missing value never clears or overwrites a recorded non-empty value.    *)
(***************************************************************************)
C21_MostRecentNonEmpty ==
  /\ dec.model = mostRecent(dec.lines, carriedModel)
  /\ dec.stopReason = mostRecent(dec.lines, carriedStop)

(***************************************************************************)
(* C21, as the program behaves: an assistant line whose message has a      *)
(* member of the wrong type records nothing, also not the well-formed      *)
(* stop reason behind the mistyped model; the recorded model name and stop *)
(* reason are those of the most recent assistant line that decoded without *)
(* a type mismatch and carried a non-empty one, and an empty or missing    *)
(* value never clears or overwrites a recorded one.                        *)
(***************************************************************************)
mistyped(line) == line = ObjectModelAndStop

recordedModel(line) == IF mistyped(line) THEN "" ELSE carriedModel(line)
recordedStop(line) == IF mistyped(line) THEN "" ELSE carriedStop(line)

C21_MostRecentWellTyped ==
  /\ dec.model = mostRecent(dec.lines, recordedModel)
  /\ dec.stopReason = mostRecent(dec.lines, recordedStop)

\* a model and a stop reason were recorded, a later line replaced the model,
\* and a line with empty values left both as they were
C21_Witness ==
  /\ dec.lines = <<ModelAndStop, ModelOnly, EmptyModelAndStop>>
  /\ dec.model = "m2"
  /\ dec.stopReason = "end_turn"

\* a stop reason behind a mistyped model was not recorded
C21_WitnessMistyped ==
  /\ dec.lines = <<StopOnly, ObjectModelAndStop>>
  /\ dec.stopReason = "tool_use"

(***************************************************************************)
(* C22. extractDeltas returns at most one non-empty fragment per call:     *)
(* text for text_delta, thinking for thinking_delta, partial JSON for      *)
(* input_json_delta; for any other delta type, for an event that is not a  *)
(* content_block_delta, and for malformed input, all three are empty.      *)
(***************************************************************************)
C22_OneFragmentPerCall ==
  dec.lines # <<>> =>
    LET line == dec.lines[Len(dec.lines)]
        d == dec.deltas
        nonEmpty == {f \in {"Text", "Thinking", "InputJSON"} : d[f] # <<>>}
    IN /\ Cardinality(nonEmpty) <= 1
       /\ CASE line \in {RawTextDelta("\"Hel\""), RawTextAndThinking} ->
                 d = [noDeltas EXCEPT !.Text = <<"Hel">>]
            [] line = RawThinkingDelta ->
                 d = [noDeltas EXCEPT !.Thinking = <<"hm">>]
            [] line = RawInputJSONDelta ->
                 d = [noDeltas EXCEPT !.InputJSON = <<"{", "\"command\"", ":">>]
            [] OTHER -> d = noDeltas

\* a malformed delta line and a tool input fragment were decoded, and then
\* the text of a text delta that also has a thinking member
C22_Witness ==
  /\ dec.lines = <<RawTextObjectThinking, RawInputJSONDelta, RawTextAndThinking>>
  /\ dec.deltas.Text = <<"Hel">>
  /\ dec.deltas.Thinking = <<>>

(***************************************************************************)
(* C23. Every block in a delegation's sub-block list is a ToolInvocation   *)
(* or a ToolResult, and no sub-block is itself a delegation owning         *)
(* sub-blocks, also when a sub-event announces a tool named "Task":        *)
(* nesting depth is at most one.  Checked for the streamed block lists and *)
(* for the block list ExtractBlocks gives for the events read so far.      *)
(***************************************************************************)
flatSubBlocks(blocks) ==
  \A i \in 1..Len(blocks) :
     /\ blocks[i].TaskSubBlocks # <<>> => isTaskBlock(blocks[i])
     /\ \A j \in 1..Len(blocks[i].TaskSubBlocks) :
          LET sb == blocks[i].TaskSubBlocks[j]
          IN /\ sb.Kind \in {BlockToolUse, BlockToolResult}
             /\ ~sb.IsTask
             /\ sb.TaskSubBlocks = <<>>

C23_NestingDepthOne ==
  /\ \A e \in 1..Len(entries) : flatSubBlocks(entries[e].blocks)
  /\ flatSubBlocks(ExtractBlocks(events))

\* a sub-event announced a tool named Task under a delegation, and an event
\* naming that tool as its parent has been read since
C23_Witness ==
  /\ Len(events) = 3
  /\ events[3].type = "assistant" /\ events[3].parent_tool_use_id = "t1"
  /\ \E i \in 1..Len(turnBlocks) :
       /\ isTaskBlock(turnBlocks[i])
       /\ Len(turnBlocks[i].TaskSubBlocks) = 2
       /\ turnBlocks[i].TaskSubBlocks[2].ToolName = "Task"
       /\ turnBlocks[i].TaskSubBlocks[2].ToolID = "t1"
       /\ turnBlocks[i].TaskSubBlocks[2].TaskSubBlocks = <<>>

(***************************************************************************)
(* Parsing of the delegation-derived fields, step by step.                 *)
(***************************************************************************)
derived(b) == <<b.TaskDescription, b.TaskSubagentType, b.TaskPrompt>>
alreadyParsed(b) == derived(b) # <<"", "", "">>

\* the tool input is the complete object {"description":"find", "prompt":"ls"}
isFullTaskInput(input) == nonSpace(input) = nonSpace(TaskInputHead \o TaskInputTail)

\* block i of the streaming turn is the delegation a sub-event with this parent
\* is routed to: the first delegation block with that id
routedTo(parent, i) ==
  /\ isTaskBlock(turnBlocks[i]) /\ turnBlocks[i].ToolID = parent
  /\ \A j \in 1..(i - 1) : ~(isTaskBlock(turnBlocks[j]) /\ turnBlocks[j].ToolID = parent)

\* this step calls parseTaskInput on block i of the streaming turn: lazily
\* for a sub-event, or at finalization
parsesInStep(i) ==
  \/ /\ isFinalizeStep
     /\ isTaskBlock(turnBlocks[i])
     /\ turnBlocks[i].ToolInput # <<>>
  \/ /\ isChunkStep
     /\ chunkEvent.parent_tool_use_id # ""
     /\ routedTo(chunkEvent.parent_tool_use_id, i)
     /\ turnBlocks[i].TaskDescription = ""
     /\ turnBlocks[i].ToolInput # <<>>

(***************************************************************************)
(* C24. The delegation-derived fields (description, subagent type, prompt) *)
(* are parsed out of the tool-input JSON exactly once per delegation       *)
(* block, whether the parse is triggered lazily by the first sub-event or  *)
(* by finalization.  As stated: no step parses a delegation block whose    *)
(* derived fields an earlier parse has set.                                *)
(***************************************************************************)
C24_Original ==
  [][\A i \in 1..Len(turnBlocks) : parsesInStep(i) => ~alreadyParsed(turnBlocks[i])]_vars

(***************************************************************************)
(* C24, as the program behaves: a sub-event parses the fields of its       *)
(* delegation whenever the description is unset and the input non-empty,   *)
(* finalization parses them again for every delegation with a non-empty    *)
(* input, a parse of the complete input sets the fields to its members, a  *)
(* parse of a delegation whose fields are set leaves them as they are, and *)
(* no other step changes them.                                             *)
(***************************************************************************)
C24_ParsedLazilyAndAtFinalize ==
  [][(isChunkStep \/ isFinalizeStep) =>
       \A i \in 1..Len(turnBlocks) :
          LET b == turnBlocks[i]
              after == entries'[Len(entries)].blocks[i]
          IN /\ alreadyParsed(b) => derived(after) = derived(b)
             /\ (parsesInStep(i) /\ isFullTaskInput(b.ToolInput))
                  => derived(after) = <<"find", "", "ls">>
             /\ ~parsesInStep(i) => derived(after) = derived(b)]_vars

\* a delegation whose fields the first sub-event parsed has been finalized
C24_Witness ==
  /\ entries # <<>>
  /\ lastEntry.role = "assistant" /\ ~lastEntry.streaming /\ lastEntry.hasResult
  /\ Len(lastEntry.blocks) = 1
  /\ isTaskBlock(lastEntry.blocks[1])
  /\ derived(lastEntry.blocks[1]) = <<"find", "", "ls">>
  /\ Len(lastEntry.blocks[1].TaskSubBlocks) = 2

(***************************************************************************)
(* C25. A block-started event, bare (content_block_start) or wrapped in a  *)
(* stream_event, appends exactly one block: an empty Text block for        *)
(* declared type text, or a ToolInvocation with the announced name and id  *)
(* and empty input for declared type tool_use; any other declared type     *)
(* appends nothing.  A top-level ToolInvocation is flagged as a delegation *)
(* if and only if its tool name is "Task".                                 *)
(***************************************************************************)
C25_BlockStartedOpensOneBlock ==
  [][(isChunkStep /\ isBlockStart(chunkEvent)) =>
       LET cb == announced(chunkEvent)
           after == entries'[Len(entries)].blocks
           opened == after[Len(after)]
       IN /\ SubSeq(after, 1, Len(turnBlocks)) = turnBlocks
          /\ Len(after) = Len(turnBlocks) + (IF cb.type \in {"text", "tool_use"} THEN 1 ELSE 0)
          /\ cb.type = "text" => opened = [ChatBlock EXCEPT !.Kind = BlockText]
          /\ cb.type = "tool_use" =>
               opened = [ChatBlock EXCEPT !.Kind = BlockToolUse, !.ToolName = cb.name,
                                          !.ToolID = cb.id, !.IsTask = (cb.name = "Task")]
          /\ \A i \in 1..Len(after) :
               after[i].Kind = BlockToolUse => (after[i].IsTask <=> after[i].ToolName = "Task")]_vars

\* a bare tool_use, a wrapped thinking block and a wrapped Task were announced
C25_Witness ==
  /\ Len(events) = 3
  /\ events[1] = BlockStartLine(ToolUseBlock("t1", "Bash", CommandInput))
  /\ events[2] = WrappedBlockStartLine([noContentBlock EXCEPT !.type = "thinking"])
  /\ events[3] = WrappedBlockStartLine(ToolUseBlock("task1", "Task", EmptyObject))
  /\ Len(turnBlocks) = 2
  /\ turnBlocks[1].ToolInput = <<>> /\ ~turnBlocks[1].IsTask
  /\ turnBlocks[2].IsTask

(***************************************************************************)
(* C26                                                                     *)
(***************************************************************************)
\* a system event with subtype init, or a rate limit event
isSessionEvent(ev) ==
  \/ ev.type = "system" /\ ev.subtype = "init"
  \/ ev.type = "rate_limit_event"

\* the fields of ChatModel that are neither banner nor rate limit fields
\* and that a chunk can reach
turnState == <<entries, streamCh>>

\* C26: the step that handles a system-init or a rate-limit event of the
\* streaming turn leaves the transcript unchanged, the block list and the text
\* and thinking accumulators of the streaming turn with it; what it changes, if
\* anything, are the banner and the rate limit fields.
C26_SessionEventsLeaveTurn ==
  [][isChunkStep /\ streamCh # "nil" /\ isSessionEvent(chunkEvent)
       => turnState' = turnState]_vars

\* a system-init and a rate-limit event were handled after the turn had
\* opened a block and accumulated text
C26_Witness ==
  /\ hasStreamingEntry
  /\ lastEntry.blocks # <<>>
  /\ lastEntry.streamText # <<>>
  /\ Len(events) >= 2
  /\ events[Len(events)].type = "rate_limit_event"
  /\ events[Len(events) - 1].type = "system"
  /\ banner.initModel = "m1"
  /\ banner.rateLimitStatus = "rejected"

(***************************************************************************)
(* C27                                                                     *)
(***************************************************************************)
\* the text and the thinking fragment a handled message carries
textFragment(ev) ==
  IF ev.type = "InteractiveChunkMsg" THEN ev.content ELSE extractDeltas(ev).Text
thinkingFragment(ev) ==
  IF ev.type = "InteractiveChunkMsg" THEN <<>> ELSE extractDeltas(ev).Thinking

\* the fragments of the messages handled for the turn, in arrival order
RECURSIVE textFragments(_, _)
textFragments(evs, i) ==
  IF i > Len(evs) THEN <<>> ELSE textFragment(evs[i]) \o textFragments(evs, i + 1)

RECURSIVE thinkingFragments(_, _)
thinkingFragments(evs, i) ==
  IF i > Len(evs) THEN <<>> ELSE thinkingFragment(evs[i]) \o thinkingFragments(evs, i + 1)

\* the contents of the Text blocks of a block list, in block order
RECURSIVE textBlockContents(_, _)
textBlockContents(blocks, i) ==
  IF i > Len(blocks) THEN <<>>
  ELSE (IF blocks[i].Kind = BlockText THEN blocks[i].Text ELSE <<>>)
         \o textBlockContents(blocks, i + 1)

accumulatorsExact ==
  hasStreamingEntry =>
    /\ lastEntry.streamText = textFragments(events, 1)
    /\ lastEntry.streamText = textBlockContents(lastEntry.blocks, 1)
    /\ lastEntry.streamThinking = thinkingFragments(events, 1)

\* a step that finalizes the streaming turn: it stays the last entry, as an
\* assistant entry that is no longer streaming
turnFinalized ==
  /\ hasStreamingEntry
  /\ Len(entries') = Len(entries)
  /\ ~entries'[Len(entries)].streaming
  /\ entries'[Len(entries)].role = "assistant"

\* C27: while a turn is streaming, streamText is the concatenation in arrival
\* order of the text fragments applied to the turn and the concatenation of
\* the contents of the turn's Text blocks in block order, and streamThinking
\* is the concatenation of the thinking fragments; the step that finalizes
\* the turn sets its text and thinking to these accumulators.
C27_AccumulatorsExact ==
  /\ []accumulatorsExact
  /\ [][turnFinalized =>
          /\ entries'[Len(entries)].text = lastEntry.streamText
          /\ entries'[Len(entries)].thinking = lastEntry.streamThinking]_vars

\* a print-mode turn took two text fragments into two Text blocks
C27_Witness ==
  /\ hasStreamingEntry
  /\ ~imode.interactive
  /\ lastEntry.streamText = <<"Hel", "lo">>
  /\ Len(SelectSeq(lastEntry.blocks, LAMBDA b : b.Kind = BlockText)) = 2

\* a print-mode turn was finalized with text and thinking
C27_WitnessThinking ==
  /\ ~imode.interactive
  /\ Len(entries) = 2
  /\ ~lastEntry.streaming
  /\ lastEntry.text # <<>>
  /\ lastEntry.thinking # <<>>

\* an interactive turn was finalized with the text of two chunks
C27_WitnessInteractive ==
  /\ imode.interactive
  /\ Len(entries) = 2
  /\ ~lastEntry.streaming
  /\ lastEntry.role = "assistant"
  /\ lastEntry.text = <<"Hel", "lo">>

(***************************************************************************)
(* C28                                                                     *)
(***************************************************************************)
\* the calls that have written to or read from the PTY
onPty(s) == {s.pty[i].call : i \in 1..Len(s.pty)}

\* the calls between their Lock and their Unlock
inSendPrompt == {c \in Calls : isess.calls[c].pc \in {"send", "sendErr", "loop", "close", "unlock"}}

\* the lock is held by the one call that is between Lock and Unlock, and a
\* call that has sent its prompt holds it as long as its channel is open
lockHeldUntilClosed ==
  /\ \A c \in inSendPrompt : isess.mu = c
  /\ \A c \in Calls : isess.calls[c].made /\ ~isess.calls[c].closed => isess.mu = c

\* a step in which a call writes to or reads from the PTY
usesPty(c) ==
  /\ Len(isess'.pty) = Len(isess.pty) + 1
  /\ isess'.pty[Len(isess'.pty)].call = c

\* C28: SendPrompt calls on one session are mutually exclusive.  The lock is
\* held by the call from before its Send until its goroutine has closed the
\* chunk channel, and whenever a call sends to or reads from the PTY, every
\* other call that has used the PTY has its chunk channel closed.
C28_SendPromptExclusive ==
  /\ []lockHeldUntilClosed
  /\ [][\A c \in Calls :
          usesPty(c) => \A d \in onPty(isess) \ {c} : isess.calls[d].closed]_vars

\* a second call sent its prompt after the first one's response, while a
\* third call waits for the lock
C28_Witness ==
  /\ Len(isess.calls) = 3
  /\ Len(isess.pty) >= 3
  /\ isess.pty[1].call # isess.pty[Len(isess.pty)].call
  /\ \E c \in Calls : isess.calls[c].pc = "lock"
  /\ \E c \in Calls : isess.calls[c].pc = "loop"

(***************************************************************************)
(* C29                                                                     *)
(***************************************************************************)
\* C29: at most one entry of the transcript is streaming and it is the last
\* entry, in every interleaving of key presses with the stream-start, chunk
\* and done messages.
C29_OneStreamingLast ==
  \A i \in 1..Len(entries) : entries[i].streaming => i = Len(entries)

(***************************************************************************)
(* C30                                                                     *)
(***************************************************************************)
\* the positions of the Text blocks of a block list
textBlocksOf(blocks) == {i \in 1..Len(blocks) : blocks[i].Kind = BlockText}

\* a step that handles a message with a text fragment for the streaming turn
isTextFragmentStep ==
  /\ hasStreamingEntry
  /\ Len(events') = Len(events) + 1
  /\ textFragment(events'[Len(events')]) # <<>>

\* the fragment reached no block but the one at position i
onlyBlockTouched(old, new, i) ==
  /\ Len(new) = Len(old)
  /\ \A j \in 1..Len(old) : j # i =>
       /\ new[j].Kind = old[j].Kind
       /\ new[j].Text = old[j].Text
       /\ new[j].ToolInput = old[j].ToolInput
       /\ new[j].TaskSubBlocks = old[j].TaskSubBlocks

\* C30: a text fragment is appended to the last Text block of the block list
\* whenever the list holds one, whatever blocks follow it, and to no other
\* block; it opens a new Text block, holding the fragment, at the end of the
\* list only when the list holds no Text block.
C30_FragmentToLastTextBlock ==
  [][isTextFragmentStep =>
       LET old == lastEntry.blocks
           new == entries'[Len(entries)].blocks
           frag == textFragment(events'[Len(events')])
           hit == textBlocksOf(old)
       IN IF hit = {}
            THEN new = Append(old, [ChatBlock EXCEPT !.Kind = BlockText, !.Text = frag])
            ELSE \E i \in hit :
                   /\ \A j \in hit : j <= i
                   /\ new[i] = [old[i] EXCEPT !.Text = old[i].Text \o frag]
                   /\ onlyBlockTouched(old, new, i)]_vars

\* a tool block was opened after the Text block: the next fragment went to
\* the Text block
C30_Witness ==
  /\ hasStreamingEntry
  /\ Len(lastEntry.blocks) = 2
  /\ lastEntry.blocks[1].Kind = BlockText
  /\ lastEntry.blocks[1].Text = <<"Hel", "lo">>
  /\ lastEntry.blocks[2].Kind = BlockToolUse
  /\ Len(events) = 3
  /\ textFragment(events[3]) = <<"lo">>

\* two Text blocks: the fragment went to the second
C30_WitnessTwoTextBlocks ==
  /\ hasStreamingEntry
  /\ Len(lastEntry.blocks) = 2
  /\ lastEntry.blocks[1].Kind = BlockText
  /\ lastEntry.blocks[1].Text = <<"Hel">>
  /\ lastEntry.blocks[2].Kind = BlockText
  /\ lastEntry.blocks[2].Text = <<"lo">>

(***************************************************************************)
(* C31                                                                     *)
(***************************************************************************)
\* the white space behind the last token of a text
RECURSIVE trailingSpace(_)
trailingSpace(raw) ==
  IF raw = <<>> \/ ~isSpace(raw[Len(raw)]) THEN <<>>
  ELSE Append(trailingSpace(SubSeq(raw, 1, Len(raw) - 1)), raw[Len(raw)])

\* a line break and two spaces for every level of nesting
lineBreak(depth) == <<"\n">> \o [k \in 1..(2 * depth) |-> " "]

\* token i of a white-space free JSON text, laid out: every member on a line
\* of its own, two spaces deeper than the braces of its object, one space
\* behind a colon, nothing between the braces of an empty object
laidOut(t, i) ==
  CASE t[i] = "}" ->
         IF t[i - 1] = "{" THEN <<"}">> ELSE lineBreak(depthBefore(t, i) - 1) \o <<"}">>
    [] t[i] = "," -> <<",">>
    [] t[i] = ":" -> <<":", " ">>
    [] t[i] = "{" -> <<"{">>
    [] OTHER ->
         (IF i > 1 /\ t[i - 1] \in {"{", ","} THEN lineBreak(depthBefore(t, i)) ELSE <<>>)
           \o <<t[i]>>

RECURSIVE layOut(_, _)
layOut(t, i) == IF i > Len(t) THEN <<>> ELSE laidOut(t, i) \o layOut(t, i + 1)

\* a valid JSON text re-indented with two spaces; white space behind the
\* value stays
reindented(raw) == layOut(nonSpace(raw), 1) \o trailingSpace(raw)

\* the value of member f of the object a JSON text holds: the token behind
\* the colon of the last member of that name, "" for none
memberOf(raw, f) ==
  LET t == nonSpace(raw)
      S == {i \in topLevelKeys(t) : literalValue(t[i]) = f}
  IN IF S = {} THEN "" ELSE literalValue(t[(CHOOSE i \in S : \A j \in S : j <= i) + 2])

isObject(raw) == validJSON(raw) /\ nonSpace(raw)[1] = "{"

\* the three members are strings where the object has them
stringMembers(raw) ==
  LET t == nonSpace(raw)
  IN \A i \in topLevelKeys(t) :
       literalValue(t[i]) \in {"description", "subagent_type", "prompt"} => isLiteral(t[i + 2])

taskFields(b) == <<b.TaskDescription, b.TaskSubagentType, b.TaskPrompt>>
objectFields(raw) ==
  <<memberOf(raw, "description"), memberOf(raw, "subagent_type"), memberOf(raw, "prompt")>>

\* the input of tool block b after finalization is the accumulated input of
\* block a re-indented if valid JSON, unchanged if not, empty if empty
inputFinalized(a, b) ==
  /\ a.ToolInput = <<>> => b.ToolInput = <<>>
  /\ a.ToolInput # <<>> /\ ~validJSON(a.ToolInput) => b.ToolInput = a.ToolInput
  /\ validJSON(a.ToolInput) => b.ToolInput = reindented(a.ToolInput)

toolBlocksOf(blocks) == {i \in 1..Len(blocks) : blocks[i].Kind = BlockToolUse}

C31_WitnessMistyped ==
  /\ Len(entries) = 2
  /\ lastEntry.hasResult
  /\ Len(lastEntry.blocks) = 1
  /\ lastEntry.blocks[1].IsTask
  /\ lastEntry.blocks[1].ToolInput = reindented(MistypedTaskInput)
  /\ taskFields(lastEntry.blocks[1]) = <<"", "", "">>

(***************************************************************************)
(* C32                                                                     *)
(***************************************************************************)
\* what identifies a top-level block: its kind, text, tool id and error flag
blockMark(kind, text, id, isError) ==
  [Kind |-> kind, Text |-> text, ToolID |-> id, IsError |-> isError]

markOf(b) == blockMark(b.Kind, b.Text, b.ToolID, b.IsError)

\* the top-level blocks due for the items of a top-level event from item i on
RECURSIVE itemMarks(_, _)
itemMarks(ev, i) ==
  IF i > Len(ev.content) THEN <<>>
  ELSE LET item == ev.content[i]
           mark ==
             CASE ev.type = "assistant" /\ item.type = "text" /\ item.text # <<>> ->
                    <<blockMark(BlockText, item.text, "", FALSE)>>
               [] ev.type = "assistant" /\ item.type = "tool_use" ->
                    <<blockMark(BlockToolUse, <<>>, item.id, FALSE)>>
               [] ev.type = "user" /\ item.type = "tool_result" ->
                    <<blockMark(BlockToolResult, <<>>, item.tool_use_id, item.is_error)>>
               [] OTHER -> <<>>
       IN mark \o itemMarks(ev, i + 1)

\* the top-level blocks due for one event
eventMarks(ev) ==
  IF ev.parent_tool_use_id # "" THEN <<>>
  ELSE IF ev.type = "content_block_start"
    THEN IF ev.content_block.type = "tool_use"
           THEN <<blockMark(BlockToolUse, <<>>, ev.content_block.id, FALSE)>>
           ELSE <<>>
  ELSE IF ev.type \in {"assistant", "user"} THEN itemMarks(ev, 1)
  ELSE <<>>

RECURSIVE listMarks(_, _)
listMarks(evs, i) ==
  IF i > Len(evs) THEN <<>> ELSE eventMarks(evs[i]) \o listMarks(evs, i + 1)

\* C32: the top-level blocks of ExtractBlocks are, in event order and within
\* an event in item order, one Text block for every text item that is not
\* empty, one ToolInvocation for every tool_use item and tool_use block start,
\* and one ToolResult with the item's error flag for every tool_result item;
\* an empty event list gives no block.
C32_ExtractInOrder ==
  LET blocks == ExtractBlocks(events)
  IN /\ [i \in 1..Len(blocks) |-> markOf(blocks[i])] = listMarks(events, 1)
     /\ events = <<>> => blocks = <<>>

\* a list whose first event has an empty text item in front of a text and a
\* tool_use item and whose second event has a result with the error flag
C32_Witness ==
  LET blocks == ExtractBlocks(events)
  IN /\ Len(events) = 2
     /\ events[1].type = "assistant"
     /\ Len(events[1].content) = 3
     /\ events[2].type = "user"
     /\ Len(blocks) = 4
     /\ blocks[1].Text = <<"Hel">>
     /\ blocks[2].ToolID = "t1"
     /\ blocks[3].Kind = BlockToolResult /\ blocks[3].IsError
     /\ blocks[4].Kind = BlockToolResult /\ ~blocks[4].IsError

(***************************************************************************)
(* C33                                                                     *)
(***************************************************************************)
\* a step that handles a ClaudeStreamDoneMsg with Err: the stream could not
\* be started or ended with an error, and an error entry shows it
isStreamErrorStep ==
  /\ cmd \in {"StreamClaude", "waitForStreamMsg"}
  /\ cmd' = "none"
  /\ entries'[Len(entries')].role = "error"

\* the cumulative part of the statistics
cumulative(st) == <<st.totalRequests, st.totalCost, st.totalInputTok, st.totalOutputTok>>

\* C33: the end of a stream with an error leaves the session id and the
\* cumulative statistics unchanged; a successful end adds exactly one to the
\* request count, and the session id after it is the result's if that is not
\* empty and the one before otherwise.
C33_StatsFrame ==
  [][/\ isStreamErrorStep =>
          /\ stats'.sessionID = stats.sessionID
          /\ cumulative(stats') = cumulative(stats)
     /\ isFinalizeStep =>
          LET result == entries'[Len(entries)].result
          IN /\ stats'.totalRequests = stats.totalRequests + 1
             /\ stats'.sessionID = IF result.SessionID # "" THEN result.SessionID
                                   ELSE stats.sessionID]_vars

\* after a stream with session id s1, a stream that ended with an error and
\* then a stream with a result without session id: two requests, session s1
C33_Witness ==
  /\ Len(entries) >= 2
  /\ lastEntry.hasResult
  /\ lastEntry.result.SessionID = ""
  /\ stats.sessionID = "s1"
  /\ stats.totalRequests = 2
  /\ \E e \in 1..Len(entries) : entries[e].role = "error"

(***************************************************************************)
(* C34                                                                     *)
(***************************************************************************)
\* the positions in the log of sent prompts at which a text was sent
sendsOf(text) == {i \in 1..Len(ipend.sent) : ipend.sent[i].text = text}

\* C34: in interactive mode at most one session is ever started and no
\* prompt is sent to a session more than once, in every interleaving of
\* key presses with the start and stream messages.
C34_OneSessionPromptOnce ==
  /\ ipend.started <= 1
  /\ \A i \in 1..Len(ipend.sent) : sendsOf(ipend.sent[i].text) = {i}

(***************************************************************************)
(* C35                                                                     *)
(***************************************************************************)
\* nothing reads channel k again: no waitForInteractiveMsg command holds it,
\* m.iStreamCh is another channel or nil, and its interactiveStreamStartMsg,
\* the only message that makes it m.iStreamCh, has been handled
abandoned(k) ==
  /\ imode.iStreamCh # chanName(k)
  /\ \A c \in BagToSet(ipend.cmds) : ~(c.kind = "waitForInteractiveMsg" /\ c.ch = k)
  /\ \A m \in BagToSet(ipend.msgs) : ~(m.type = "interactiveStreamStartMsg" /\ m.ch = k)

\* the goroutine of the SendPrompt call that made channel k waits at
\* ch <- clean with the buffer full and nothing will read from the channel:
\* it holds the lock of its session and has not closed the channel
stuck(k) ==
  /\ ~ipend.chans[k].closed
  /\ ipend.chans[k].pending
  /\ ipend.chans[k].buffered = PtyChanCap
  /\ abandoned(k)

\* C35: no SendPrompt call is left holding the session lock for ever with
\* its chunk channel open; every call can still release the lock and close
\* its channel.
C35_SendPromptReleases ==
  \A k \in 1..Len(ipend.chans) : ~stuck(k)

(***************************************************************************)
(* C36                                                                     *)
(***************************************************************************)
\* a step that handles a key press, and the key
isKeyStep == Len(kbd'.keys) = Len(kbd.keys) + 1
pressedKey == kbd'.keys[Len(kbd'.keys)]

\* the step submits no prompt: no entry is added and no command returned
submitsNothing == entries' = entries /\ starting' = starting /\ ipend' = ipend

\* C36: while scroll mode is on no key press submits a prompt or changes the
\* value of the input box; Esc toggles scroll mode; in scroll mode 'i' and
\* Enter only switch scroll mode off and every other key is given to the
\* viewport and leaves scroll mode on; a step that adds a prompt to the
\* transcript starts and ends with scroll mode off.
C36_ScrollModeKeys ==
  [][isKeyStep =>
       /\ kbd.scrollMode => submitsNothing /\ kbd'.value = kbd.value
       /\ pressedKey = "esc" =>
            kbd'.scrollMode = ~kbd.scrollMode /\ kbd'.viewport = kbd.viewport
       /\ kbd.scrollMode /\ pressedKey \in {"i", "enter"} =>
            ~kbd'.scrollMode /\ kbd'.viewport = kbd.viewport
       /\ kbd.scrollMode /\ pressedKey \notin {"esc", "i", "enter"} =>
            kbd'.scrollMode /\ kbd'.viewport = Append(kbd.viewport, pressedKey)
       /\ entries' # entries => ~kbd.scrollMode /\ ~kbd'.scrollMode]_vars

\* Enter was pressed in scroll mode with a prompt typed in the input box: the
\* prompt is still there and nothing was submitted
C36_Witness ==
  /\ kbd.keys = <<"a", "esc", "enter">>
  /\ kbd.value = <<"a">>
  /\ ~kbd.scrollMode
  /\ entries = <<>>

\* a key was given to the viewport in scroll mode, and after leaving scroll
\* mode the typed prompt was submitted
C36_WitnessSubmit ==
  /\ kbd.keys = <<"a", "esc", "down", "i", "enter">>
  /\ kbd.viewport = <<"down">>
  /\ Len(entries) = 1
  /\ entries[1].text = <<"a">>

(***************************************************************************)
(* C37                                                                     *)
(***************************************************************************)
\* the cycle of the claim, and the place of a mode in it (0: not in it)
modeCycle == <<"plan", "acceptEdits", "bypassPermissions", "dontAsk">>
placeOf(mode) ==
  IF \E i \in 1..Len(modeCycle) : modeCycle[i] = mode
    THEN CHOOSE i \in 1..Len(modeCycle) : modeCycle[i] = mode
    ELSE 0

\* the operations i..j of the list are all Next
allNext(i, j) == \A k \in i..j : perm[k].op = "Next"

\* C37: Next takes each mode of the cycle plan, acceptEdits,
\* bypassPermissions, dontAsk to the one behind it and the last to the first,
\* takes every other mode to plan, and four applications of Next in a row
\* to a known mode give that mode again.
C37_NextCycles ==
  /\ \A i \in 2..Len(perm) :
       perm[i].op = "Next" =>
         perm[i].mode = modeCycle[(placeOf(perm[i - 1].mode) % Len(modeCycle)) + 1]
  /\ \A i \in 1..Len(perm) :
       (i + Len(modeCycle) <= Len(perm)
        /\ placeOf(perm[i].mode) # 0
        /\ allNext(i + 1, i + Len(modeCycle))) =>
         perm[i + Len(modeCycle)].mode = perm[i].mode

\* dontAsk was set and Next applied four times
C37_Witness ==
  /\ Len(perm) = 5
  /\ perm[1] = [op |-> "set", mode |-> "dontAsk"]
  /\ allNext(2, 5)
  /\ perm[2].mode = "plan"

\* Next was applied to the unknown and to the empty mode
C37_WitnessUnknown ==
  /\ Len(perm) = 4
  /\ perm[1] = [op |-> "set", mode |-> "unknown"]
  /\ perm[2].op = "Next"
  /\ perm[3] = [op |-> "set", mode |-> ""]
  /\ perm[4] = [op |-> "Next", mode |-> "plan"]

(***************************************************************************)
(* C38                                                                     *)
(***************************************************************************)
\* the strings wrapText returned
returnedLines == [i \in 1..Len(wrap.lines) |-> wrap.lines[i].s]

\* the number of newlines of a text
newlinesOf(s) == Cardinality({i \in 1..Len(s) : s[i] = "\n"})

\* the line ends in the middle of a word of its paragraph: its last byte and
\* the byte behind it are both no spaces
endsInsideWord(line) ==
  LET p == wrap.paragraphs[line.para]
      end == line.at + Len(line.s)
  IN  /\ line.s # <<>>
      /\ end < Len(p)
      /\ p[end] # " "
      /\ p[end + 1] # " "

\* the result of a call with width >= 1
wrapped ==
  /\ \A i \in 1..Len(wrap.lines) :
       LET line == wrap.lines[i] IN
       /\ RuneCountInString(line.s) <= wrap.width
       /\ \A j \in 1..Len(line.s) : line.s[j] # "\n"
       /\ line.s = SubSeq(wrap.paragraphs[line.para], line.at + 1, line.at + Len(line.s))
       /\ endsInsideWord(line) => RuneCountInString(line.s) = wrap.width
       /\ i > 1 => \/ wrap.lines[i - 1].para = line.para /\ wrap.lines[i - 1].at < line.at
                   \/ wrap.lines[i - 1].para + 1 = line.para
  /\ Len(wrap.lines) > 0
  /\ wrap.lines[1].para = 1
  /\ wrap.lines[Len(wrap.lines)].para = newlinesOf(wrap.text) + 1

\* the call goes on: every round of the inner loop shortens what remains and
\* every round of the outer loop takes the next paragraph
progresses ==
  /\ wrap.pc = "loop" /\ wrap'.pc = "loop" => Len(wrap'.remaining) < Len(wrap.remaining)
  /\ wrap.pc = "range" /\ wrap'.pc # "done" => wrap'.para = wrap.para + 1
  /\ wrap.pc = "loop" /\ wrap'.pc = "range" => wrap'.para = wrap.para
  /\ wrap.pc = "done" => wrap' = wrap

C38_WitnessWords ==
  /\ wrap.pc = "done"
  /\ wrap.text = <<"\n", "a", " ", "a">>
  /\ wrap.width = 2
  /\ returnedLines = << <<>>, <<"a">>, <<"a">> >>

\* width <= 0
C38_WitnessNoWidth ==
  /\ wrap.pc = "done"
  /\ wrap.width = 0
  /\ returnedLines = << <<"a", " ", "\n", "a">> >>

====
